---- MODULE Spec2Model ----
(***************************************************************************)
(* Model of the FHIR Security Labeling Service backend                     *)
(* (src/backend/fhir-sls-service.js): the rule compiler                    *)
(* (processValueSetBundle and its helpers, writing the SQLite tables       *)
(* valuesets, rules, metadata and stats) and the tagging operations        *)
(* (analyzeResourceBundle, analyzeResourceBundleFull).                     *)
(*                                                                         *)
(* JavaScript values are modelled as follows.  A string field that is      *)
(* undefined or missing is Absent, one that is null is Null, and any       *)
(* string, the empty string included, is itself.  Falsy is the test !x of  *)
(* the code on such a field and Template is its rendering in a template    *)
(* literal.  A Date is its millisecond value, a positive integer; a date   *)
(* that is missing or "" is NoDate, one that is null is NullDate           *)
(* (FalsyDate is the test !x on a date field) and the Date built from an   *)
(* unparseable string (NaN, "Invalid Date") is InvalidDate.  The local     *)
(* variables and the stored values that hold no date are NoDate.  An array *)
(* is a sequence; a missing array is the empty sequence where the code     *)
(* treats both alike, and has an explicit flag where it does not.  A field *)
(* that holds an object or an array is present or missing, never null.     *)
(***************************************************************************)
EXTENDS Integers, Sequences, FiniteSets, Bags, TLC

Absent == "<absent>"
Null == "<null>"

Falsy(x) == x \in {Absent, Null, ""}

Template(x) == IF x = Absent THEN "undefined" ELSE IF x = Null THEN "null" ELSE x
NoDate == 0
InvalidDate == 0 - 1
NullDate == 0 - 2

FalsyDate(d) == d \in {NoDate, NullDate}

(***************************************************************************)
(* Bounds of the model.                                                    *)
(***************************************************************************)
MaxCompiles == 2      \* compile requests started in one behaviour
MaxInflight == 2      \* compile requests suspended at an await at one time
MaxTags == 1          \* accepted tagging requests in one behaviour
MaxSteps == 2         \* label and marker steps applied to one resource
MaxRetags == 1        \* times the client submits the emitted records again
DepthLimit == 4       \* the depth that a bounded traversal would not pass
MaxTime == 3          \* the timestamps of markers and of the clock are 1..MaxTime

(***************************************************************************)
(* Data: codings, expansion items, ValueSets.                              *)
(***************************************************************************)
Coding(sys, code, disp) == [system |-> sys, code |-> code, display |-> disp]

Item(sys, code, kids) == [system |-> sys, code |-> code, contains |-> kids]

Expansion(items, ts) ==
    [present |-> TRUE, hasContains |-> TRUE, contains |-> items, timestamp |-> ts]

ExpansionNoContains(ts) ==
    [present |-> TRUE, hasContains |-> FALSE, contains |-> <<>>, timestamp |-> ts]

NoExpansion ==
    [present |-> FALSE, hasContains |-> FALSE, contains |-> <<>>, timestamp |-> NoDate]

\* topic: the codings of resource.topic[0] (empty when there is no topic);
\* useContext: the list of contexts, each [code, coding].  hasTopic and
\* hasUseContext tell whether the resource holds the array at all: an
\* empty array is a value of its own for expandValueSet.
ValueSet(id, topic, useContext, expansion, date) ==
    [resourceType |-> "ValueSet", id |-> id,
     hasTopic |-> topic # <<>>, topic |-> topic,
     hasUseContext |-> useContext # <<>>, useContext |-> useContext,
     expansion |-> expansion, date |-> date]

\* The ValueSet with topic: [] and useContext: [] where it has none.
WithEmptyArrays(vs) == [vs EXCEPT !.hasTopic = TRUE, !.hasUseContext = TRUE]

Focus(codings) == [code |-> "focus", coding |-> codings]

OtherResource(type) ==
    [resourceType |-> type, id |-> Absent,
     hasTopic |-> FALSE, topic |-> <<>>,
     hasUseContext |-> FALSE, useContext |-> <<>>,
     expansion |-> NoExpansion, date |-> NoDate]

ConfidentialitySystem == "http://terminology.hl7.org/CodeSystem/v3-Confidentiality"
LAST_SOURCE_SYNC_URL == "http://hl7.org/fhir/StructureDefinition/lastSourceSync"

SUPPORTED_RESOURCES ==
    {"AllergyIntolerance", "Condition", "Procedure", "Immunization",
     "MedicationRequest", "Medication", "CarePlan", "CareTeam", "Goal",
     "Observation", "DiagnosticReport", "DocumentReference",
     "QuestionnaireResponse", "Specimen", "Encounter", "ServiceRequest"}

(***************************************************************************)
(* Dates.  The comparison of two Date objects with < or > compares their   *)
(* millisecond values and is false as soon as one of them is NaN.          *)
(***************************************************************************)
DateLT(a, b) == a > 0 /\ b > 0 /\ a < b

DateGT(a, b) == a > 0 /\ b > 0 /\ a > b

DateGE(a, b) == a > 0 /\ b > 0 /\ a >= b

(***************************************************************************)
(* createOperationOutcome                                                  *)
(***************************************************************************)
RECURSIVE DetailIssues(_)
DetailIssues(details) ==
    IF details = <<>> THEN <<>>
    ELSE <<[severity |-> "warning", code |-> "processing",
            diagnostics |-> Head(details)]>> \o DetailIssues(Tail(details))

createOperationOutcome(severity, message, details) ==
    [resourceType |-> "OperationOutcome",
     issue |-> <<[severity |-> severity,
                  code |-> IF severity = "success" THEN "informational"
                           ELSE "processing",
                  diagnostics |-> message]>> \o DetailIssues(details)]

(***************************************************************************)
(* extractTopicCodings, validateValueSet, getValueSetDate                  *)
(***************************************************************************)
RECURSIVE CodingsWithCode(_)
CodingsWithCode(codings) ==
    IF codings = <<>> THEN <<>>
    ELSE (IF ~Falsy(Head(codings).code) THEN <<Head(codings)>> ELSE <<>>)
         \o CodingsWithCode(Tail(codings))

RECURSIVE FocusCodings(_)
FocusCodings(contexts) ==
    IF contexts = <<>> THEN <<>>
    ELSE (IF Head(contexts).code = "focus"
          THEN CodingsWithCode(Head(contexts).coding) ELSE <<>>)
         \o FocusCodings(Tail(contexts))

extractTopicCodings(resource) ==
    (IF resource.topic # <<>> /\ ~Falsy(Head(resource.topic).code)
     THEN <<Head(resource.topic)>> ELSE <<>>)
    \o FocusCodings(resource.useContext)

IdOrUnknown(resource) == IF Falsy(resource.id) THEN "unknown" ELSE resource.id

NeedsExpansion(resource) ==
    ~resource.expansion.present \/ ~resource.expansion.hasContains

validateValueSet(resource) ==
    (IF Falsy(resource.id) THEN <<<<"ValueSet missing required field: id">>>>
     ELSE <<>>)
    \o (IF extractTopicCodings(resource) = <<>>
        THEN <<<<"ValueSet missing topic", IdOrUnknown(resource)>>>> ELSE <<>>)
    \o (IF NeedsExpansion(resource)
        THEN <<<<"ValueSet missing expansion.contains", IdOrUnknown(resource)>>>>
        ELSE <<>>)

getValueSetDate(valueSet) ==
    IF valueSet.expansion.present /\ ~FalsyDate(valueSet.expansion.timestamp)
    THEN valueSet.expansion.timestamp
    ELSE IF ~FalsyDate(valueSet.date) THEN valueSet.date
    ELSE NoDate

(***************************************************************************)
(* expandValueSet: the outcome of the call to the terminology server is    *)
(* the response; a response that is not ok stands for every way the call   *)
(* returns null (HTTP error, exception, unexpected format, no expansion).  *)
(***************************************************************************)
ExpandFailed == [ok |-> FALSE, vs |-> OtherResource(Absent)]

ExpandReturned(vs) == [ok |-> TRUE, vs |-> vs]

expandValueSet(valueSet, response) ==
    IF ~response.ok \/ ~response.vs.expansion.present THEN ExpandFailed
    ELSE LET e == response.vs IN
         ExpandReturned(
            [e EXCEPT
               !.id = IF Falsy(e.id) /\ ~Falsy(valueSet.id) THEN valueSet.id
                      ELSE e.id,
               !.date = IF FalsyDate(e.date) /\ ~FalsyDate(valueSet.date)
                        THEN valueSet.date ELSE e.date,
               !.hasTopic = e.hasTopic \/ valueSet.hasTopic,
               !.topic = IF ~e.hasTopic THEN valueSet.topic ELSE e.topic,
               !.hasUseContext = e.hasUseContext \/ valueSet.hasUseContext,
               !.useContext = IF ~e.hasUseContext THEN valueSet.useContext
                              ELSE e.useContext])

(***************************************************************************)
(* The database.  Each table is the set of its rows; INSERT OR REPLACE     *)
(* removes the row that holds the same primary key.  A statement that      *)
(* fails changes nothing and throws; statements are committed one by one   *)
(* (the service opens no transaction).                                     *)
(***************************************************************************)
DB(vsRows, ruleRows, metaRows, statRows) ==
    [valuesets |-> vsRows, rules |-> ruleRows, metadata |-> metaRows,
     stats |-> statRows]

InitialStats ==
    [totalValueSetsProcessed |-> 0, totalResourcesAnalyzed |-> 0,
     totalResourcesLabeled |-> 0, totalResourcesSkipped |-> 0]

getMetadata(metaRows, key) ==
    IF \E row \in metaRows : row.key = key
    THEN (CHOOSE row \in metaRows : row.key = key).value
    ELSE NoDate

setMetadata(metaRows, key, value) ==
    {row \in metaRows : row.key # key} \cup {[key |-> key, value |-> value]}

\* the date column holds vs.date || null (NoDate stands for SQL NULL)
InsertValueSet(vsRows, vs) ==
    {row \in vsRows : row.id # vs.id}
        \cup {[id |-> vs.id, resource |-> vs,
               date |-> IF FalsyDate(vs.date) THEN NoDate ELSE vs.date]}

RECURSIVE InsertValueSets(_, _)
InsertValueSets(vsRows, valueSets) ==
    IF valueSets = <<>> THEN vsRows
    ELSE InsertValueSets(InsertValueSet(vsRows, Head(valueSets)), Tail(valueSets))

\* storeValueSets: the rows are written first; then the epoch, whose
\* toISOString() throws a RangeError on an invalid Date.
storeValueSets(db, valueSets, earliestDate) ==
    LET stored == [db EXCEPT !.valuesets = InsertValueSets(db.valuesets, valueSets)]
        currentEarliest == getMetadata(db.metadata, "earliestDate")
    IN  IF earliestDate # NoDate
           /\ (currentEarliest = NoDate \/ DateLT(earliestDate, currentEarliest))
        THEN IF earliestDate = InvalidDate
             THEN [db |-> stored, threw |-> TRUE]
             ELSE [db |-> [stored EXCEPT !.metadata =
                              setMetadata(db.metadata, "earliestDate", earliestDate)],
                   threw |-> FALSE]
        ELSE [db |-> stored, threw |-> FALSE]

CodeKey(system, code) == system \o "|" \o code

\* insertStmt.run of buildRules: code_key is the primary key of the rules
\* table and topic_system is NOT NULL.
InsertRule(acc, key, topic) ==
    IF acc.threw THEN acc
    ELSE IF topic.system \in {Absent, Null} THEN [acc EXCEPT !.threw = TRUE]
    ELSE [acc EXCEPT !.rules =
            {row \in acc.rules : row.code_key # key}
                \cup {[code_key |-> key, topic_code |-> topic.code,
                       topic_system |-> topic.system,
                       topic_display |-> topic.display]}]

RECURSIVE extractCodesFromExpansion(_, _, _)
extractCodesFromExpansion(contains, acc, topic) ==
    IF contains = <<>> \/ acc.threw THEN acc
    ELSE LET item == Head(contains)
             own == IF ~Falsy(item.code) /\ ~Falsy(item.system)
                    THEN InsertRule(acc, CodeKey(item.system, item.code), topic)
                    ELSE acc
             nested == extractCodesFromExpansion(item.contains, own, topic)
         IN  extractCodesFromExpansion(Tail(contains), nested, topic)

RECURSIVE RulesOfTopics(_, _, _)
RulesOfTopics(vs, topicCodings, acc) ==
    IF topicCodings = <<>> \/ acc.threw THEN acc
    ELSE LET topicCoding == Head(topicCodings)
             topic == [code |-> topicCoding.code, system |-> topicCoding.system,
                       display |-> IF Falsy(topicCoding.display)
                                   THEN topicCoding.code
                                   ELSE topicCoding.display]
             next == IF vs.expansion.present /\ vs.expansion.hasContains
                     THEN extractCodesFromExpansion(vs.expansion.contains, acc, topic)
                     ELSE acc
         IN  RulesOfTopics(vs, Tail(topicCodings), next)

RECURSIVE RulesOfValueSets(_, _)
RulesOfValueSets(valueSets, acc) ==
    IF valueSets = <<>> \/ acc.threw THEN acc
    ELSE RulesOfValueSets(Tail(valueSets),
            RulesOfTopics(Head(valueSets), extractTopicCodings(Head(valueSets)), acc))

buildRules(db, valueSets) ==
    LET built == RulesOfValueSets(valueSets, [rules |-> db.rules, threw |-> FALSE])
    IN  [db |-> [db EXCEPT !.rules = built.rules], threw |-> built.threw]

incrementStat(db, key, increment) ==
    [db EXCEPT !.stats = [db.stats EXCEPT ![key] = @ + increment]]

(***************************************************************************)
(* processValueSetBundle.  The function is async: it runs without          *)
(* interruption from its call, or from the return of an awaited            *)
(* expandValueSet, to the next await or to its return.  A request is the   *)
(* record of its local variables: the entries of the input (the single     *)
(* ValueSet is held as the one entry of a request of kind "ValueSet"),     *)
(* the responses the terminology server has given so far (by entry), the   *)
(* index i of the entry being processed, valueSets, errors, earliestDate,  *)
(* and pc: "run", "await" (suspended at entry i), "finish" (at line 147)   *)
(* or "returned" (an early return, with its outcome).  calls records the   *)
(* calls of expandValueSet: the indices of the entries it was called for.  *)
(***************************************************************************)
NoResponse == [ok |-> FALSE, vs |-> OtherResource("<pending>")]

NoOutcome == createOperationOutcome("none", <<"none">>, <<>>)

Entry(resource) == [resource |-> resource]

NewRequest(kind, entries) ==
    [kind |-> kind, entries |-> entries,
     responses |-> [k \in 1..Len(entries) |-> NoResponse],
     i |-> 1, valueSets |-> <<>>, errors |-> <<>>, earliestDate |-> NoDate,
     pc |-> "run", outcome |-> NoOutcome, calls |-> <<>>]

\* Mutant of ValidateAndCollect: the date of the resource is folded into
\* earliestDate before the resource is validated.
ValidateAndCollect_DateFirst(st, resource) ==
    LET validation == validateValueSet(resource)
        vsDate == getValueSetDate(resource)
        dated == [st EXCEPT
                    !.earliestDate =
                        IF vsDate # NoDate
                           /\ (st.earliestDate = NoDate
                               \/ DateLT(vsDate, st.earliestDate))
                        THEN vsDate ELSE @]
    IN  IF validation # <<>>
        THEN [dated EXCEPT !.errors = @ \o validation]
        ELSE [dated EXCEPT !.valueSets = Append(@, resource)]

\* Lines 125-139: validate the (expanded) resource, fold its date into
\* earliestDate and collect it.
ValidateAndCollect(st, resource) ==
    LET validation == validateValueSet(resource)
        vsDate == getValueSetDate(resource)
    IN  IF validation # <<>>
        THEN [st EXCEPT !.errors = @ \o validation]
        ELSE [st EXCEPT
                !.earliestDate =
                    IF vsDate # NoDate
                       /\ (st.earliestDate = NoDate \/ DateLT(vsDate, st.earliestDate))
                    THEN vsDate ELSE @,
                !.valueSets = Append(@, resource)]

\* Mutant of BundleLoop: expandValueSet is called for every ValueSet,
\* whether or not it has expansion.contains.
RECURSIVE BundleLoop_ExpandAlways(_)
BundleLoop_ExpandAlways(st) ==
    IF st.i > Len(st.entries) THEN [st EXCEPT !.pc = "finish"]
    ELSE LET resource == st.entries[st.i].resource
             next(s) == BundleLoop_ExpandAlways([s EXCEPT !.i = st.i + 1])
         IN  IF resource.resourceType # "ValueSet"
             THEN next([st EXCEPT !.errors = Append(@,
                          <<"Skipping non-ValueSet resource",
                            IF Falsy(resource.resourceType) THEN "unknown"
                            ELSE resource.resourceType>>)])
             ELSE IF st.responses[st.i] = NoResponse
             THEN [st EXCEPT !.pc = "await", !.calls = Append(@, st.i)]
             ELSE LET expanded == expandValueSet(resource, st.responses[st.i])
                  IN  IF expanded.ok
                      THEN next(ValidateAndCollect(st, expanded.vs))
                      ELSE next([st EXCEPT !.errors = Append(@,
                                   <<"Failed to expand ValueSet",
                                     IdOrUnknown(resource)>>)])

\* Lines 106-140: the loop over the entries of a Bundle, from entry st.i.
RECURSIVE BundleLoop(_)
BundleLoop(st) ==
    IF st.i > Len(st.entries) THEN [st EXCEPT !.pc = "finish"]
    ELSE LET resource == st.entries[st.i].resource
             next(s) == BundleLoop([s EXCEPT !.i = st.i + 1])
         IN  IF resource.resourceType # "ValueSet"
             THEN next([st EXCEPT !.errors = Append(@,
                          <<"Skipping non-ValueSet resource",
                            IF Falsy(resource.resourceType) THEN "unknown"
                            ELSE resource.resourceType>>)])
             ELSE IF NeedsExpansion(resource)
             THEN IF st.responses[st.i] = NoResponse
                  THEN [st EXCEPT !.pc = "await", !.calls = Append(@, st.i)]
                  ELSE LET expanded == expandValueSet(resource, st.responses[st.i])
                       IN  IF expanded.ok
                           THEN next(ValidateAndCollect(st, expanded.vs))
                           ELSE next([st EXCEPT !.errors = Append(@,
                                        <<"Failed to expand ValueSet",
                                          IdOrUnknown(resource)>>)])
             ELSE next(ValidateAndCollect(st, resource))

\* Mutant of SingleValueSet: the date of the single ValueSet is not taken
\* as earliestDate.
SingleValueSet_NoDate(st) ==
    LET input == st.entries[1].resource
        validated(vs) ==
            LET validation == validateValueSet(vs)
            IN  IF validation # <<>>
                THEN [st EXCEPT !.pc = "returned",
                        !.outcome = createOperationOutcome("error",
                                        <<"Invalid ValueSet">>, validation)]
                ELSE [st EXCEPT !.pc = "finish", !.valueSets = <<vs>>]
    IN  IF NeedsExpansion(input)
        THEN IF st.responses[1] = NoResponse
             THEN [st EXCEPT !.pc = "await", !.calls = Append(@, 1)]
             ELSE LET expanded == expandValueSet(input, st.responses[1])
                  IN  IF expanded.ok THEN validated(expanded.vs)
                      ELSE [st EXCEPT !.pc = "returned",
                              !.outcome = createOperationOutcome("error",
                                  <<"Failed to expand ValueSet", IdOrUnknown(input)>>,
                                  <<>>)]
        ELSE validated(input)

\* Lines 77-99: the single ValueSet.
SingleValueSet(st) ==
    LET input == st.entries[1].resource
        validated(vs) ==
            LET validation == validateValueSet(vs)
            IN  IF validation # <<>>
                THEN [st EXCEPT !.pc = "returned",
                        !.outcome = createOperationOutcome("error",
                                        <<"Invalid ValueSet">>, validation)]
                ELSE [st EXCEPT !.pc = "finish",
                        !.valueSets = <<vs>>,
                        !.earliestDate = getValueSetDate(vs)]
    IN  IF NeedsExpansion(input)
        THEN IF st.responses[1] = NoResponse
             THEN [st EXCEPT !.pc = "await", !.calls = Append(@, 1)]
             ELSE LET expanded == expandValueSet(input, st.responses[1])
                  IN  IF expanded.ok THEN validated(expanded.vs)
                      ELSE [st EXCEPT !.pc = "returned",
                              !.outcome = createOperationOutcome("error",
                                  <<"Failed to expand ValueSet", IdOrUnknown(input)>>,
                                  <<>>)]
        ELSE validated(input)

\* Lines 70-145: from the call to the first await, return or line 147.
\* The input is a record with a resourceType; a Bundle has hasEntry, entry.
StartRequest(input) ==
    IF input.resourceType = "ValueSet"
    THEN SingleValueSet(NewRequest("ValueSet", <<Entry(input)>>))
    ELSE IF input.resourceType = "Bundle"
    THEN IF ~input.hasEntry \/ input.entry = <<>>
         THEN [NewRequest("Bundle", <<>>) EXCEPT !.pc = "returned",
                 !.outcome = createOperationOutcome("warning",
                                 <<"Bundle contains no entries">>, <<>>)]
         ELSE BundleLoop(NewRequest("Bundle", input.entry))
    ELSE [NewRequest(input.resourceType, <<>>) EXCEPT !.pc = "returned",
            !.outcome = createOperationOutcome("error", <<"Invalid input">>, <<>>)]

\* The return of the awaited expandValueSet at entry st.i.
ResumeRequest(st, response) ==
    LET answered == [st EXCEPT !.responses[st.i] = response, !.pc = "run"]
    IN  IF st.kind = "ValueSet" THEN SingleValueSet(answered)
        ELSE BundleLoop(answered)

\* Lines 147-167: the end of the request, run against the database db.
FinishRequest(st, db) ==
    IF st.pc = "returned" THEN [db |-> db, outcome |-> st.outcome, threw |-> FALSE]
    ELSE IF st.valueSets = <<>>
    THEN [db |-> db, threw |-> FALSE,
          outcome |-> createOperationOutcome("error",
                          <<"No valid ValueSets found">>, st.errors)]
    ELSE LET stored == storeValueSets(db, st.valueSets, st.earliestDate)
             built == buildRules(stored.db, st.valueSets)
             failed(d) == [db |-> d, threw |-> TRUE,
                           outcome |-> createOperationOutcome("error",
                                           <<"Processing failed">>, <<>>)]
         IN  IF stored.threw THEN failed(stored.db)
             ELSE IF built.threw THEN failed(built.db)
             ELSE [db |-> incrementStat(built.db, "totalValueSetsProcessed",
                                        Len(st.valueSets)),
                   threw |-> FALSE,
                   outcome |-> createOperationOutcome("success",
                                   <<"Successfully processed", Len(st.valueSets)>>,
                                   st.errors)]

(***************************************************************************)
(* Clinical resources.  A Node is one JSON object of a resource's content: *)
(* its system and code fields, its coding array (hasCoding tells whether   *)
(* it has one) and, in children, the objects held by its other fields, in  *)
(* key order.  A resource holds its type, id, meta (hasMeta) with the      *)
(* security labels (hasSecurity) and the extensions (hasExtension), and    *)
(* the objects of its content.  The keys of a resource are taken in the    *)
(* order resourceType, id, meta, content, or, when metaLast holds, in the  *)
(* order resourceType, id, content, meta (a resource that came without     *)
(* meta and was given one by the service); those of meta in the order      *)
(* security, extension; those of a Node in the order system, code,         *)
(* coding, children.                                                       *)
(***************************************************************************)
Node(sys, code, hasCoding, coding, children) ==
    [system |-> sys, code |-> code, hasCoding |-> hasCoding,
     coding |-> coding, children |-> children, nulls |-> 0]

\* nulls: how many of the keys of the object, other than system and code,
\* hold null
WithNulls(node, n) == [node EXCEPT !.nulls = n]

Leaf(sys, code) == Node(sys, code, FALSE, <<>>, <<>>)

Concept(codings) == Node(Absent, Absent, TRUE, codings, <<>>)

Container(children) == Node(Absent, Absent, FALSE, <<>>, children)

Extension(url, valueDateTime) == [url |-> url, valueDateTime |-> valueDateTime]

Meta(hasSecurity, security, hasExtension, extension) ==
    [hasSecurity |-> hasSecurity, security |-> security,
     hasExtension |-> hasExtension, extension |-> extension]

NoMeta == Meta(FALSE, <<>>, FALSE, <<>>)

Resource(type, id, hasMeta, meta, content) ==
    [resourceType |-> type, id |-> id, hasMeta |-> hasMeta, meta |-> meta,
     metaLast |-> FALSE, content |-> content]

NoResource == Resource(Absent, Absent, FALSE, NoMeta, <<>>)

BundleEntry(resource) == [hasResource |-> TRUE, resource |-> resource]

EmptyEntry == [hasResource |-> FALSE, resource |-> NoResource]

\* getAllRules: the rules object, a map from code_key to its topic.
getAllRules(ruleRows) ==
    [key \in {row.code_key : row \in ruleRows} |->
        LET row == CHOOSE r \in ruleRows : r.code_key = key
        IN  [code |-> row.topic_code, system |-> row.topic_system,
             display |-> row.topic_display]]

\* shouldSkipResource; earliestDate is the stored metadata value.
FirstSync(extension) ==
    LET at == {k \in 1..Len(extension) : extension[k].url = LAST_SOURCE_SYNC_URL}
    IN  IF at = {} THEN Extension(Absent, NoDate)
        ELSE extension[CHOOSE k \in at : \A j \in at : k <= j]

\* Mutant of shouldSkipResource: the comparison of the client engine, >=.
shouldSkipResource_Inclusive(resource, earliestDate) ==
    IF earliestDate = NoDate \/ ~resource.hasMeta \/ ~resource.meta.hasExtension
    THEN FALSE
    ELSE LET syncExt == FirstSync(resource.meta.extension)
         IN  IF syncExt.url = Absent \/ FalsyDate(syncExt.valueDateTime) THEN FALSE
             ELSE DateGE(syncExt.valueDateTime, earliestDate)

shouldSkipResource(resource, earliestDate) ==
    IF earliestDate = NoDate \/ ~resource.hasMeta \/ ~resource.meta.hasExtension
    THEN FALSE
    ELSE LET syncExt == FirstSync(resource.meta.extension)
         IN  IF syncExt.url = Absent \/ FalsyDate(syncExt.valueDateTime) THEN FALSE
             ELSE DateGT(syncExt.valueDateTime, earliestDate)

\* matchedTopics is a Set of JSON strings: a sequence, in insertion order,
\* of topics that differ in code, system or display.
SetAdd(seq, x) ==
    IF \E k \in 1..Len(seq) : seq[k] = x THEN seq ELSE Append(seq, x)

\* One traversal: matched is matchedTopics; the other fields record the
\* calls of findAndCheckCodes: calls holds, in call order, the key of every
\* object with system and code on which it was called, level counts the
\* calls that have not returned (the call on the resource itself is the
\* first), and deepest is the highest level reached.
NewScan == [matched |-> <<>>, calls |-> <<>>, level |-> 1, deepest |-> 1]

\* findAndCheckCodes(null, ...), called from an object at scan.level: the
\* call returns at line 641.
NullCall(scan) ==
    [scan EXCEPT !.deepest = IF scan.level + 1 > @ THEN scan.level + 1 ELSE @]

RECURSIVE findAndCheckCodes(_, _, _)
RECURSIVE FindInAll(_, _, _)
findAndCheckCodes(obj, rules, scan) ==
    LET shaped == ~Falsy(obj.system) /\ ~Falsy(obj.code)
        entered == [scan EXCEPT
                      !.level = @ + 1,
                      !.deepest = IF scan.level + 1 > @ THEN scan.level + 1 ELSE @,
                      !.calls = IF shaped
                                THEN Append(@, CodeKey(obj.system, obj.code))
                                ELSE @]
        own == IF shaped /\ CodeKey(obj.system, obj.code) \in DOMAIN rules
               THEN [entered EXCEPT
                       !.matched = SetAdd(@, rules[CodeKey(obj.system, obj.code)])]
               ELSE entered
        codings == IF obj.hasCoding THEN FindInAll(obj.coding, rules, own) ELSE own
        \* the loop over the keys: the keys that hold null (an object for
        \* typeof), coding (an array) again, then the rest
        nullKeys == IF obj.system = Null \/ obj.code = Null \/ obj.nulls > 0
                    THEN NullCall(codings) ELSE codings
        codingKey == IF obj.hasCoding THEN FindInAll(obj.coding, rules, nullKeys)
                     ELSE nullKeys
        left == FindInAll(obj.children, rules, codingKey)
    IN  [left EXCEPT !.level = @ - 1]

FindInAll(objs, rules, scan) ==
    IF objs = <<>> THEN scan
    ELSE FindInAll(Tail(objs), rules, findAndCheckCodes(Head(objs), rules, scan))

RECURSIVE LabelNodes(_)
LabelNodes(security) ==
    IF security = <<>> THEN <<>>
    ELSE <<WithNulls(Leaf(Head(security).system, Head(security).code),
                     IF Head(security).display = Null THEN 1 ELSE 0)>>
         \o LabelNodes(Tail(security))

\* An extension {url, valueDateTime} as the traversal sees it: an object
\* without system, code, coding or objects below it.
ExtensionNodes(extension) ==
    [k \in 1..Len(extension) |->
        WithNulls(Leaf(Absent, Absent),
                  (IF extension[k].url = Null THEN 1 ELSE 0)
                  + (IF extension[k].valueDateTime = NullDate THEN 1 ELSE 0))]

\* Mutant of analyzeResource: only the objects at the top of the resource
\* are looked up, not the objects they hold.
RECURSIVE FindAtTop(_, _, _)
FindAtTop(objs, rules, matchedTopics) ==
    IF objs = <<>> THEN matchedTopics
    ELSE LET obj == Head(objs)
         IN  FindAtTop(Tail(objs), rules,
                IF ~Falsy(obj.system) /\ ~Falsy(obj.code)
                   /\ CodeKey(obj.system, obj.code) \in DOMAIN rules
                THEN SetAdd(matchedTopics, rules[CodeKey(obj.system, obj.code)])
                ELSE matchedTopics)

analyzeResource_TopLevelOnly(resource, rules) == FindAtTop(resource.content, rules, <<>>)

\* The call findAndCheckCodes(resource, rules, matchedTopics) of
\* analyzeResource: the traversal starts at the resource itself, so it
\* walks meta (in it every label of security, an object with system and
\* code, and then every object of extension, which holds no object) and
\* the content, in the order of the keys (for...in, line 658).
InMeta(resource, rules, scan) ==
    IF ~resource.hasMeta THEN scan
    ELSE LET entered == [scan EXCEPT !.level = 2,
                                     !.deepest = IF @ < 2 THEN 2 ELSE @]
             security == IF resource.meta.hasSecurity
                         THEN FindInAll(LabelNodes(resource.meta.security),
                                        rules, entered)
                         ELSE entered
             left == IF resource.meta.hasExtension
                     THEN FindInAll(ExtensionNodes(resource.meta.extension),
                                    rules, security)
                     ELSE security
         IN  [left EXCEPT !.level = 1]

Traverse(resource, rules) ==
    LET nullKeys == IF resource.resourceType = Null \/ resource.id = Null
                    THEN NullCall(NewScan) ELSE NewScan
    IN  IF resource.metaLast
        THEN InMeta(resource, rules, FindInAll(resource.content, rules, nullKeys))
        ELSE FindInAll(resource.content, rules, InMeta(resource, rules, nullKeys))

\* analyzeResource: Array.from(matchedTopics)
analyzeResource(resource, rules) == Traverse(resource, rules).matched

HasLabel(security, system, code) ==
    \E k \in 1..Len(security) : security[k].system = system /\ security[k].code = code

RECURSIVE PushTopics(_, _)
PushTopics(security, matchedTopics) ==
    IF matchedTopics = <<>> THEN security
    ELSE LET topic == Head(matchedTopics)
         IN  PushTopics(
                IF HasLabel(security, topic.system, topic.code) THEN security
                ELSE Append(security, Coding(topic.system, topic.code, topic.display)),
                Tail(matchedTopics))

\* Mutant of applySecurityLabels: every matched topic is pushed, present or
\* not.
RECURSIVE PushAllTopics(_, _)
PushAllTopics(security, matchedTopics) ==
    IF matchedTopics = <<>> THEN security
    ELSE LET topic == Head(matchedTopics)
         IN  PushAllTopics(
                Append(security, Coding(topic.system, topic.code, topic.display)),
                Tail(matchedTopics))

applySecurityLabels_NoTopicCheck(resource, matchedTopics) ==
    LET meta == IF resource.hasMeta THEN resource.meta ELSE NoMeta
        security == IF meta.hasSecurity THEN meta.security ELSE <<>>
        restricted == IF HasLabel(security, ConfidentialitySystem, "R") THEN security
                      ELSE Append(security,
                                  Coding(ConfidentialitySystem, "R", "restricted"))
    IN  [resource EXCEPT !.hasMeta = TRUE,
            !.metaLast = IF resource.hasMeta THEN @ ELSE TRUE,
            !.meta = [meta EXCEPT !.hasSecurity = TRUE,
                         !.security = PushAllTopics(restricted, matchedTopics)]]

\* Mutant of applySecurityLabels: a matched topic is looked up in the
\* incoming label list only, not in the list as it grows.
RECURSIVE PushUnlessIncoming(_, _, _)
PushUnlessIncoming(security, incoming, matchedTopics) ==
    IF matchedTopics = <<>> THEN security
    ELSE LET topic == Head(matchedTopics)
         IN  PushUnlessIncoming(
                IF HasLabel(incoming, topic.system, topic.code) THEN security
                ELSE Append(security, Coding(topic.system, topic.code, topic.display)),
                incoming, Tail(matchedTopics))

applySecurityLabels_CheckIncoming(resource, matchedTopics) ==
    LET meta == IF resource.hasMeta THEN resource.meta ELSE NoMeta
        security == IF meta.hasSecurity THEN meta.security ELSE <<>>
        restricted == IF HasLabel(security, ConfidentialitySystem, "R") THEN security
                      ELSE Append(security,
                                  Coding(ConfidentialitySystem, "R", "restricted"))
    IN  [resource EXCEPT !.hasMeta = TRUE,
            !.metaLast = IF resource.hasMeta THEN @ ELSE TRUE,
            !.meta = [meta EXCEPT !.hasSecurity = TRUE,
                         !.security =
                            PushUnlessIncoming(restricted, restricted, matchedTopics)]]

applySecurityLabels(resource, matchedTopics) ==
    LET meta == IF resource.hasMeta THEN resource.meta ELSE NoMeta
        security == IF meta.hasSecurity THEN meta.security ELSE <<>>
        restricted == IF HasLabel(security, ConfidentialitySystem, "R") THEN security
                      ELSE Append(security,
                                  Coding(ConfidentialitySystem, "R", "restricted"))
    IN  [resource EXCEPT !.hasMeta = TRUE,
            !.metaLast = IF resource.hasMeta THEN @ ELSE TRUE,
            !.meta = [meta EXCEPT !.hasSecurity = TRUE,
                         !.security = PushTopics(restricted, matchedTopics)]]

\* Mutant of addLastSourceSync: a resource that came with a marker keeps the
\* time of that marker.
addLastSourceSync_KeepOldTime(resource, now) ==
    LET meta == IF resource.hasMeta THEN resource.meta ELSE NoMeta
        extension == IF meta.hasExtension THEN meta.extension ELSE <<>>
        old == SelectSeq(extension, LAMBDA ext : ext.url = LAST_SOURCE_SYNC_URL)
    IN  [resource EXCEPT !.hasMeta = TRUE,
            !.metaLast = IF resource.hasMeta THEN @ ELSE TRUE,
            !.meta = [meta EXCEPT !.hasExtension = TRUE,
                         !.extension =
                            Append(SelectSeq(extension,
                                       LAMBDA ext : ext.url # LAST_SOURCE_SYNC_URL),
                                   Extension(LAST_SOURCE_SYNC_URL,
                                             IF old = <<>> THEN now
                                             ELSE old[1].valueDateTime))]]

\* Mutant of addLastSourceSync: the markers already there are kept.
addLastSourceSync_KeepMarkers(resource, now) ==
    LET meta == IF resource.hasMeta THEN resource.meta ELSE NoMeta
        extension == IF meta.hasExtension THEN meta.extension ELSE <<>>
    IN  [resource EXCEPT !.hasMeta = TRUE,
            !.metaLast = IF resource.hasMeta THEN @ ELSE TRUE,
            !.meta = [meta EXCEPT !.hasExtension = TRUE,
                         !.extension =
                            Append(extension, Extension(LAST_SOURCE_SYNC_URL, now))]]

addLastSourceSync(resource, now) ==
    LET meta == IF resource.hasMeta THEN resource.meta ELSE NoMeta
        extension == IF meta.hasExtension THEN meta.extension ELSE <<>>
    IN  [resource EXCEPT !.hasMeta = TRUE,
            !.metaLast = IF resource.hasMeta THEN @ ELSE TRUE,
            !.meta = [meta EXCEPT !.hasExtension = TRUE,
                         !.extension =
                            Append(SelectSeq(extension,
                                       LAMBDA ext : ext.url # LAST_SOURCE_SYNC_URL),
                                   Extension(LAST_SOURCE_SYNC_URL, now))]]

createBatchEntry(resource) ==
    [request |-> [method |-> "PUT",
                  url |-> Template(resource.resourceType) \o "/"
                          \o Template(resource.id)],
     hasResource |-> TRUE, resource |-> resource]

\* The key of securityMap: the template `${security.system}|${security.code}`.
LabelKey(security) == CodeKey(Template(security.system), Template(security.code))

\* collectDistinctSecurityLabels; it throws a TypeError on an entry that
\* has no resource.  acc holds the values of securityMap in insertion
\* order: the first label of each key.
RECURSIVE DistinctLabels(_, _)
DistinctLabels(security, acc) ==
    IF security = <<>> THEN acc
    ELSE LET s == Head(security)
         IN  DistinctLabels(Tail(security),
                IF \E k \in 1..Len(acc) : LabelKey(acc[k]) = LabelKey(s) THEN acc
                ELSE Append(acc, Coding(s.system, s.code, s.display)))

RECURSIVE collectDistinctSecurityLabels(_, _)
collectDistinctSecurityLabels(entries, acc) ==
    IF entries = <<>> \/ acc.threw THEN acc
    ELSE LET entry == Head(entries)
         IN  IF ~entry.hasResource THEN [acc EXCEPT !.threw = TRUE]
             ELSE collectDistinctSecurityLabels(Tail(entries),
                    IF entry.resource.hasMeta /\ entry.resource.meta.hasSecurity
                    THEN [acc EXCEPT !.labels =
                            DistinctLabels(entry.resource.meta.security, @)]
                    ELSE acc)

(***************************************************************************)
(* analyzeResourceBundle (narrowed, "batch" mode) and                      *)
(* analyzeResourceBundleFull.  Both are synchronous.  now is the value of  *)
(* new Date() during the request.  The result holds the database after     *)
(* the call, whether the call threw (and the error), the output Bundle,    *)
(* the entries of the input Bundle as the call leaves them (the narrowed   *)
(* mode works on the caller's objects, the full mode on copies), and       *)
(* taken: for each entry of the input, the branch of the loop it took,     *)
(* "unsupported", "skipped" or "scanned".                                  *)
(***************************************************************************)
TagBundle(resourceType, type, hasEntry, entries) ==
    [resourceType |-> resourceType, type |-> type, hasEntry |-> hasEntry,
     entry |-> entries]

NoOutput ==
    [resourceType |-> Absent, type |-> Absent, entry |-> <<>>,
     hasSecurity |-> FALSE, security |-> <<>>,
     analyzed |-> 0, labeled |-> 0, skipped |-> 0]

Thrown(db, bundle, error) ==
    [db |-> db, threw |-> TRUE, error |-> error, output |-> NoOutput,
     inputAfter |-> bundle.entry, taken |-> <<>>]

\* Lines 422-434 and 491-503: the checks before any entry is processed.
Rejection(db, bundle) ==
    IF bundle.resourceType # "Bundle" THEN "Invalid Bundle"
    ELSE IF ~bundle.hasEntry \/ bundle.entry = <<>> THEN "Bundle contains no entries"
    ELSE IF Cardinality(db.rules) = 0 THEN "No sensitive topic rules loaded"
    ELSE "none"

\* Mutant of ScanResource: the label step runs whether or not a topic
\* matched.
ScanResource_AlwaysLabel(resource, rules, now) ==
    LET matchedTopics == analyzeResource(resource, rules)
    IN  [matched |-> matchedTopics,
         resource |-> addLastSourceSync(
                          applySecurityLabels(resource, matchedTopics), now)]

\* Mutant of ScanResource: only a labelled resource is stamped.
ScanResource_StampIfLabeled(resource, rules, now) ==
    LET matchedTopics == analyzeResource(resource, rules)
    IN  [matched |-> matchedTopics,
         resource |-> IF Len(matchedTopics) > 0
                      THEN addLastSourceSync(
                               applySecurityLabels(resource, matchedTopics), now)
                      ELSE resource]

\* Lines 455-465 and 532-542: scan, label and stamp one resource.
ScanResource(resource, rules, now) ==
    LET with(matchedTopics) ==
            [matched |-> matchedTopics,
             resource |-> addLastSourceSync(
                              IF Len(matchedTopics) > 0
                              THEN applySecurityLabels(resource, matchedTopics)
                              ELSE resource, now)]
    IN  with(analyzeResource(resource, rules))

NewCounts(out) ==
    [entries |-> out, analyzed |-> 0, labeled |-> 0, skipped |-> 0, after |-> <<>>,
     taken |-> <<>>]

\* Mutant of BatchLoop: a resource that SyncGate bypasses is emitted too.
RECURSIVE BatchLoop_EmitSkipped(_, _, _, _, _)
BatchLoop_EmitSkipped(entries, rules, earliestDate, now, acc) ==
    IF entries = <<>> THEN acc
    ELSE LET entry == Head(entries)
             resource == entry.resource
             scanned == ScanResource(resource, rules, now)
         IN  BatchLoop_EmitSkipped(Tail(entries), rules, earliestDate, now,
                IF ~entry.hasResource
                   \/ resource.resourceType \notin SUPPORTED_RESOURCES
                THEN [acc EXCEPT !.after = Append(@, entry),
                                 !.taken = Append(@, "unsupported")]
                ELSE IF shouldSkipResource(resource, earliestDate)
                THEN [acc EXCEPT !.skipped = @ + 1, !.after = Append(@, entry),
                                 !.entries = Append(@, createBatchEntry(resource)),
                                 !.taken = Append(@, "skipped")]
                ELSE [acc EXCEPT
                        !.taken = Append(@, "scanned"),
                        !.analyzed = @ + 1,
                        !.labeled = IF Len(scanned.matched) > 0 THEN @ + 1 ELSE @,
                        !.entries = Append(@, createBatchEntry(scanned.resource)),
                        !.after = Append(@, [entry EXCEPT
                                                !.resource = scanned.resource])])

\* Mutant of BatchLoop: a resource that SyncGate bypasses is scanned,
\* labelled and stamped like the others (and still counted as skipped).
RECURSIVE BatchLoop_ScanSkipped(_, _, _, _, _)
BatchLoop_ScanSkipped(entries, rules, earliestDate, now, acc) ==
    IF entries = <<>> THEN acc
    ELSE LET entry == Head(entries)
             resource == entry.resource
             scanned == ScanResource(resource, rules, now)
         IN  BatchLoop_ScanSkipped(Tail(entries), rules, earliestDate, now,
                IF ~entry.hasResource
                   \/ resource.resourceType \notin SUPPORTED_RESOURCES
                THEN [acc EXCEPT !.after = Append(@, entry),
                                 !.taken = Append(@, "unsupported")]
                ELSE IF shouldSkipResource(resource, earliestDate)
                THEN [acc EXCEPT !.skipped = @ + 1,
                                 !.after = Append(@, [entry EXCEPT
                                                !.resource = scanned.resource]),
                                 !.taken = Append(@, "skipped")]
                ELSE [acc EXCEPT
                        !.taken = Append(@, "scanned"),
                        !.analyzed = @ + 1,
                        !.labeled = IF Len(scanned.matched) > 0 THEN @ + 1 ELSE @,
                        !.entries = Append(@, createBatchEntry(scanned.resource)),
                        !.after = Append(@, [entry EXCEPT
                                                !.resource = scanned.resource])])

\* Lines 443-466.
RECURSIVE BatchLoop(_, _, _, _, _)
BatchLoop(entries, rules, earliestDate, now, acc) ==
    IF entries = <<>> THEN acc
    ELSE LET entry == Head(entries)
             resource == entry.resource
             emitted(scanned) ==
                [acc EXCEPT
                   !.taken = Append(@, "scanned"),
                   !.analyzed = @ + 1,
                   !.labeled = IF Len(scanned.matched) > 0 THEN @ + 1 ELSE @,
                   !.entries = Append(@, createBatchEntry(scanned.resource)),
                   !.after = Append(@, [entry EXCEPT !.resource = scanned.resource])]
         IN  BatchLoop(Tail(entries), rules, earliestDate, now,
                IF ~entry.hasResource
                   \/ resource.resourceType \notin SUPPORTED_RESOURCES
                THEN [acc EXCEPT !.after = Append(@, entry),
                                 !.taken = Append(@, "unsupported")]
                ELSE IF shouldSkipResource(resource, earliestDate)
                THEN [acc EXCEPT !.skipped = @ + 1, !.after = Append(@, entry),
                                 !.taken = Append(@, "skipped")]
                ELSE emitted(ScanResource(resource, rules, now)))

\* Mutant of CountStats: the bypassed resources are counted as analyzed.
CountStats_SkippedAsAnalyzed(db, acc) ==
    incrementStat(
        incrementStat(
            incrementStat(db, "totalResourcesAnalyzed", acc.analyzed + acc.skipped),
            "totalResourcesLabeled", acc.labeled),
        "totalResourcesSkipped", acc.skipped)

CountStats(db, acc) ==
    incrementStat(
        incrementStat(
            incrementStat(db, "totalResourcesAnalyzed", acc.analyzed),
            "totalResourcesLabeled", acc.labeled),
        "totalResourcesSkipped", acc.skipped)

\* createBatchBundle
createBatchBundle(entries, counts) ==
    LET securityLabels ==
            collectDistinctSecurityLabels(entries, [labels |-> <<>>, threw |-> FALSE])
    IN  [resourceType |-> "Bundle", type |-> "batch", entry |-> entries,
         hasSecurity |-> Len(securityLabels.labels) > 0,
         security |-> securityLabels.labels,
         analyzed |-> counts.analyzed, labeled |-> counts.labeled,
         skipped |-> counts.skipped]

\* Mutant of analyzeResourceBundle: the check that rules are loaded is made
\* after the loop over the entries.
analyzeResourceBundle_LateRulesCheck(db, bundle, now) ==
    IF bundle.resourceType # "Bundle" \/ ~bundle.hasEntry \/ bundle.entry = <<>>
    THEN Thrown(db, bundle, Rejection(db, bundle))
    ELSE LET acc == BatchLoop(bundle.entry, getAllRules(db.rules),
                              getMetadata(db.metadata, "earliestDate"), now,
                              NewCounts(<<>>))
         IN  IF Cardinality(db.rules) = 0
             THEN [Thrown(CountStats(db, acc), bundle, Rejection(db, bundle))
                     EXCEPT !.inputAfter = acc.after]
             ELSE [db |-> CountStats(db, acc), threw |-> FALSE, error |-> "none",
                   output |-> createBatchBundle(acc.entries, acc),
                   inputAfter |-> acc.after, taken |-> acc.taken]

analyzeResourceBundle(db, bundle, now) ==
    LET return(acc) ==
            [db |-> CountStats(db, acc), threw |-> FALSE, error |-> "none",
             output |-> createBatchBundle(acc.entries, acc),
             inputAfter |-> acc.after, taken |-> acc.taken]
    IN  IF Rejection(db, bundle) # "none"
        THEN Thrown(db, bundle, Rejection(db, bundle))
        ELSE return(BatchLoop(bundle.entry, getAllRules(db.rules),
                              getMetadata(db.metadata, "earliestDate"), now,
                              NewCounts(<<>>)))

\* JSON.parse(JSON.stringify(entry)): the entries are JSON values, which
\* the round trip reproduces.
JsonCopy(entry) == entry

\* Lines 513-543.
RECURSIVE FullLoop(_, _, _, _, _)
FullLoop(entries, rules, earliestDate, now, acc) ==
    IF entries = <<>> THEN acc
    ELSE LET entry == Head(entries)
             resource == entry.resource
             newEntry == JsonCopy(entry)
             emitted(scanned) ==
                [acc EXCEPT
                   !.taken = Append(@, "scanned"),
                   !.analyzed = @ + 1,
                   !.labeled = IF Len(scanned.matched) > 0 THEN @ + 1 ELSE @,
                   !.entries = Append(@, [newEntry EXCEPT
                                             !.resource = scanned.resource]),
                   !.after = Append(@, entry)]
         IN  FullLoop(Tail(entries), rules, earliestDate, now,
                IF ~entry.hasResource
                   \/ resource.resourceType \notin SUPPORTED_RESOURCES
                THEN [acc EXCEPT !.entries = Append(@, newEntry),
                                 !.after = Append(@, entry),
                                 !.taken = Append(@, "unsupported")]
                ELSE IF shouldSkipResource(resource, earliestDate)
                THEN [acc EXCEPT !.entries = Append(@, newEntry),
                                 !.skipped = @ + 1, !.after = Append(@, entry),
                                 !.taken = Append(@, "skipped")]
                ELSE emitted(ScanResource(newEntry.resource, rules, now)))

analyzeResourceBundleFull(db, bundle, now) ==
    LET return(acc, securityLabels) ==
            IF securityLabels.threw
            THEN [Thrown(CountStats(db, acc), bundle, "TypeError")
                    EXCEPT !.taken = acc.taken]
            ELSE [db |-> CountStats(db, acc), threw |-> FALSE, error |-> "none",
                  output |->
                     [resourceType |-> "Bundle",
                      type |-> IF Falsy(bundle.type) THEN "collection"
                               ELSE bundle.type,
                      entry |-> acc.entries,
                      hasSecurity |-> Len(securityLabels.labels) > 0,
                      security |-> securityLabels.labels,
                      analyzed |-> acc.analyzed, labeled |-> acc.labeled,
                      skipped |-> acc.skipped],
                  inputAfter |-> acc.after, taken |-> acc.taken]
        collect(acc) ==
            return(acc, collectDistinctSecurityLabels(acc.entries,
                            [labels |-> <<>>, threw |-> FALSE]))
    IN  IF Rejection(db, bundle) # "none"
        THEN Thrown(db, bundle, Rejection(db, bundle))
        ELSE collect(FullLoop(bundle.entry, getAllRules(db.rules),
                              getMetadata(db.metadata, "earliestDate"), now,
                              NewCounts(<<>>)))

(***************************************************************************)
(* The inputs of the model.                                                *)
(***************************************************************************)
SNOMED == "http://snomed.info/sct"
TopicSystem == "http://terminology.hl7.org/CodeSystem/v3-ActCode"

PSY == Coding(TopicSystem, "PSY", "psychiatry")
SUD == Coding(TopicSystem, "SUD", "substance use")
PSYalt == Coding(TopicSystem, "PSY", "mental health")
HIV == Coding(Absent, "HIV", Absent)

X == Item(SNOMED, "X", <<>>)
Y == Item(SNOMED, "Y", <<>>)
Z == Item(SNOMED, "Z", <<>>)

\* X with Y nested below it; topic PSY; date 2
VsPsy == ValueSet("vs-psy", <<PSY>>, <<>>,
                  Expansion(<<Item(SNOMED, "X", <<Y>>)>>, NoDate), 2)
\* a later version of vs-psy that no longer holds X
VsPsyNew == ValueSet("vs-psy", <<PSY>>, <<>>, Expansion(<<Y>>, NoDate), 3)
\* Y; topic SUD by a focus context; expansion timestamp 1 preferred to date 3
VsSud == ValueSet("vs-sud", <<>>, <<Focus(<<SUD>>)>>, Expansion(<<Y>>, 1), 3)
\* Z; three topic codings, two of them with the identity of PSY
VsMulti == ValueSet("vs-multi", <<PSY>>, <<Focus(<<SUD, PSYalt>>)>>,
                    Expansion(<<Z>>, NoDate), 2)
\* no expansion: the terminology server is asked
VsLazy == ValueSet("vs-lazy", <<SUD>>, <<>>, NoExpansion, 1)
VsNoId == ValueSet(Absent, <<PSY>>, <<>>, Expansion(<<X>>, NoDate), 1)
VsNoTopic == ValueSet("vs-notopic", <<>>, <<Focus(<<>>)>>, Expansion(<<X>>, NoDate), 1)
\* an expansion that holds no CodeIdentity: a member without a system
VsNoMember == ValueSet("vs-nomember", <<SUD>>, <<>>,
                       Expansion(<<Item(Absent, "Z", <<>>)>>, NoDate), 1)
\* an expansion whose contains is the empty list
VsEmpty == ValueSet("vs-empty", <<SUD>>, <<>>, Expansion(<<>>, NoDate), 1)
\* a date that is no timestamp
VsBadDate == ValueSet("vs-baddate", <<PSY>>, <<>>, Expansion(<<Z>>, NoDate),
                      InvalidDate)
\* a source with neither a date nor an expansion timestamp
VsUndated == ValueSet("vs-undated", <<SUD>>, <<>>, Expansion(<<Y>>, NoDate), NoDate)
\* a topic coding without a system
VsNoSystem == ValueSet("vs-nosystem", <<HIV>>, <<>>, Expansion(<<Z>>, NoDate), 2)

SourcePool ==
    {VsPsy, VsPsyNew, VsSud, VsMulti, VsLazy, VsNoId, VsNoTopic, VsNoMember,
     VsEmpty, VsBadDate, VsNoSystem}

CompileBundle(entries) ==
    [resourceType |-> "Bundle", hasEntry |-> TRUE, entry |-> entries]

Patient == OtherResource("Patient")

\* The compile requests of the rule compiler on its own: every source alone,
\* the Bundles of one entry, the Bundles of two entries that start with a
\* source of LeadPool, and those that end with vs-psy after any other entry.
EntryPool == {Entry(vs) : vs \in SourcePool \cup {Patient}}

LeadPool == {Entry(VsPsy), Entry(VsLazy), Entry(VsBadDate)}

BundlePool ==
    {<<a>> : a \in EntryPool}
    \cup {<<a, b>> : a \in LeadPool, b \in EntryPool}
    \cup {<<a, b>> : a \in EntryPool \ LeadPool, b \in {Entry(VsPsy)}}

CompileInputs ==
    SourcePool \cup {CompileBundle(entries) : entries \in BundlePool}
    \cup {CompileBundle(<<>>), Patient}

\* The compile requests of the whole service, interleaved with tagging.
ServiceInputs ==
    {VsPsy, VsSud, VsLazy, VsMulti,
     CompileBundle(<<Entry(VsPsy), Entry(VsNoSystem)>>)}

\* What the terminology server may answer: a failure, an expansion with
\* its own timestamp, an expansion without contains, an expansion in a
\* ValueSet that holds topic: [] and useContext: [].
ResponsePool ==
    {ExpandFailed,
     ExpandReturned(ValueSet(Absent, <<>>, <<>>, Expansion(<<X>>, 1), NoDate)),
     ExpandReturned(ValueSet(Absent, <<>>, <<>>, ExpansionNoContains(NoDate), NoDate)),
     ExpandReturned(WithEmptyArrays(
        ValueSet(Absent, <<>>, <<>>, Expansion(<<X>>, 1), NoDate)))}

Times == 1..MaxTime

\* what the clock reads when a record is marked: the first or the last time
Clock == {1, MaxTime}

\* what the clock reads during a tagging request: the last time (no marker
\* of an incoming record is later than the clock)
TagClock == {MaxTime}

Marker(t) == Meta(FALSE, <<>>, TRUE, <<Extension(LAST_SOURCE_SYNC_URL, t)>>)

\* X nested three levels deep, inside a concept wrapper
RecX == Resource("Condition", "c1", FALSE, NoMeta,
            <<Container(<<Container(<<Concept(<<Leaf(SNOMED, "X")>>)>>)>>)>>)
\* a bare Y, and a reprocessing marker of time t
RecY(t) == Resource("Observation", "o1", TRUE, Marker(t), <<Leaf(SNOMED, "Y")>>)
RecZ == Resource("Procedure", "p1", TRUE, NoMeta, <<Concept(<<Leaf(SNOMED, "Z")>>)>>)
RecPatient == Resource("Patient", "pat1", FALSE, NoMeta, <<Leaf(SNOMED, "X")>>)
\* a bare Y; the record arrives with the restricted label and the PSY label
\* (under another display)
Restricted == Coding(ConfidentialitySystem, "R", "restricted")

RecR == Resource("Condition", "c2", TRUE, Meta(TRUE, <<Restricted, PSYalt>>, FALSE, <<>>),
            <<Leaf(SNOMED, "Y")>>)
\* a bare Y; the record arrives with the restricted label twice
RecRR == Resource("Condition", "c4", TRUE,
              Meta(TRUE, <<Restricted, Coding(ConfidentialitySystem, "R", "Restricted")>>,
                   FALSE, <<>>),
              <<Leaf(SNOMED, "Y")>>)
\* a code that no source holds
RecQ == Resource("Procedure", "p2", FALSE, NoMeta, <<Leaf(SNOMED, "Q")>>)
\* a second marked Observation
RecY2(t) == Resource("Observation", "o2", TRUE, Marker(t), <<Leaf(SNOMED, "Y")>>)

\* five supported records: two marked at the last time, X, Z and Q
FiveRecords ==
    <<BundleEntry(RecY(MaxTime)), BundleEntry(RecX), BundleEntry(RecZ),
      BundleEntry(RecY2(MaxTime)), BundleEntry(RecQ)>>

\* a bare Q; the record arrives with two labels that differ in system and
\* in code and give the same string system|code
RecBar == Resource("Condition", "c3", TRUE,
              Meta(TRUE, <<Coding("urn:a", "b|c", "one"),
                           Coding("urn:a|b", "c", "two")>>, FALSE, <<>>),
              <<Leaf(SNOMED, "Q")>>)

RecordPool ==
    {BundleEntry(RecX), BundleEntry(RecZ), BundleEntry(RecPatient), EmptyEntry,
     BundleEntry(RecR)}
    \cup {BundleEntry(RecY(t)) : t \in Times}

\* Bundles of one record, Bundles that pair RecX with a record of each kind
\* in both orders, Bundles of two records marked one time unit apart (in
\* both orders), a Bundle of five records, a Bundle of records that arrive
\* with the restricted label twice, once and not at all, and the inputs
\* that are rejected for their shape.
TagPairs ==
    {<<BundleEntry(RecX), b>> : b \in RecordPool}
    \cup {<<a, BundleEntry(RecX)>> : a \in RecordPool}
    \cup {<<BundleEntry(RecY(p[1])), BundleEntry(RecY(p[2]))>> :
              p \in {q \in Times \X Times : q[2] = q[1] + 1 \/ q[1] = q[2] + 1}}

TagInputs ==
    {TagBundle("Bundle", Absent, TRUE, <<a>>) : a \in RecordPool}
    \cup {TagBundle("Bundle", "searchset", TRUE, pair) : pair \in TagPairs}
    \cup {TagBundle("Bundle", "collection", TRUE, FiveRecords),
          TagBundle("Bundle", "collection", TRUE, <<BundleEntry(RecBar)>>),
          TagBundle("Bundle", "collection", TRUE,
                    <<BundleEntry(RecRR), BundleEntry(RecR), BundleEntry(RecX),
                      BundleEntry(RecQ)>>),
          TagBundle("Bundle", Absent, FALSE, <<>>),
          TagBundle("Bundle", Absent, TRUE, <<>>),
          TagBundle("Patient", Absent, TRUE, <<BundleEntry(RecX)>>),
          TagBundle(Absent, Absent, FALSE, <<>>)}

Modes == {"batch", "full"}

(***************************************************************************)
(* The state: the four tables, the compile requests suspended at an await  *)
(* (a bag of request records), the response of the request that has just   *)
(* returned (until it is sent), the numbers of compile requests started    *)
(* and of tagging requests accepted so far, and compiled: the sources of   *)
(* the compile requests that returned success, in the order in which they  *)
(* were compiled.                                                          *)
(***************************************************************************)
VARIABLES valuesets, rules, metadata, stats, pending, resp, started, tagged,
          compiled, unit, held

vars == <<valuesets, rules, metadata, stats, pending, resp, started, tagged,
          compiled, unit, held>>

Database == DB(valuesets, rules, metadata, stats)

NoResp == [op |-> "none"]

\* unit holds the resource that the label step and the marker step are
\* applied to on their own (see SpecLabel); the service leaves it alone.
NoUnit == [steps |-> <<>>]

\* held is what the client of the tagging service keeps: the response of
\* its last answered tagging request, whose emitted records it may submit
\* again (see SpecRetag), and how often it did so.
NoHeld == [again |-> 0, has |-> FALSE]

Init ==
    /\ unit = NoUnit
    /\ held = NoHeld
    /\ valuesets = {}
    /\ rules = {}
    /\ metadata = {}
    /\ stats = InitialStats
    /\ pending = EmptyBag
    /\ resp = NoResp
    /\ started = 0
    /\ tagged = 0
    /\ compiled = <<>>

SetDatabase(db) ==
    /\ valuesets' = db.valuesets
    /\ rules' = db.rules
    /\ metadata' = db.metadata
    /\ stats' = db.stats

\* A request that reached an await is suspended; one that reached its end
\* runs lines 147-167 against the database and returns.
Proceed(st, others) ==
    IF st.pc = "await"
    THEN /\ pending' = others (+) SetToBag({st})
         /\ resp' = NoResp
         /\ UNCHANGED <<valuesets, rules, metadata, stats, compiled, unit, held>>
    ELSE LET done == FinishRequest(st, Database)
         IN  /\ pending' = others
             /\ SetDatabase(done.db)
             /\ resp' = [op |-> "compile", request |-> st, pre |-> Database,
                         outcome |-> done.outcome, threw |-> done.threw]
             /\ compiled' = IF done.outcome.issue[1].severity = "success"
                             THEN compiled \o st.valueSets ELSE compiled
             /\ UNCHANGED <<unit, held>>

\* POST of a ValueSet or a Bundle of ValueSets: processValueSetBundle(input)
Compile(input) ==
    /\ resp = NoResp
    /\ started < MaxCompiles
    /\ BagCardinality(pending) < MaxInflight
    /\ started' = started + 1
    /\ Proceed(StartRequest(input), pending)
    /\ UNCHANGED tagged

\* the terminology server answers a suspended request
Expanded(st, response) ==
    /\ resp = NoResp
    /\ BagIn(st, pending)
    /\ Proceed(ResumeRequest(st, response), pending (-) SetToBag({st}))
    /\ UNCHANGED <<started, tagged>>

\* analyzeResourceBundle(bundle) or analyzeResourceBundleFull(bundle) at the
\* time now, and the response kept under the name op
AnalyzeAs(op, bundle, mode, now) ==
    /\ resp = NoResp
    /\ \E done \in {IF mode = "full"
                     THEN analyzeResourceBundleFull(Database, bundle, now)
                     ELSE analyzeResourceBundle(Database, bundle, now)} :
          /\ SetDatabase(done.db)
          /\ resp' = [op |-> op, mode |-> mode, bundle |-> bundle, now |-> now,
                      pre |-> Database, threw |-> done.threw, error |-> done.error,
                      output |-> done.output, inputAfter |-> done.inputAfter,
                      taken |-> done.taken]
    /\ UNCHANGED <<pending, started, compiled, unit>>

\* POST of a Bundle of resources, in narrowed or in full mode
Analyze(bundle, mode, now) ==
    /\ tagged < MaxTags
    /\ tagged' = IF Rejection(Database, bundle) = "none" THEN tagged + 1 ELSE tagged
    /\ AnalyzeAs("tag", bundle, mode, now)
    /\ UNCHANGED held

\* clearAllData: every row of valuesets, rules and metadata is deleted and
\* every counter of stats is set to 0.
clearAllData(db) == DB({}, {}, {}, [key \in DOMAIN db.stats |-> 0])

\* DELETE /api/v1/data: clearAllData().  The requests suspended at an await
\* stay suspended; compiled starts again with the empty tables.
ClearAllData ==
    /\ resp = NoResp
    /\ SetDatabase(clearAllData(Database))
    /\ compiled' = <<>>
    /\ UNCHANGED <<pending, resp, started, tagged, unit, held>>

\* The HTTP layer sends the response; the next handler runs after that.
Respond ==
    /\ resp # NoResp
    /\ resp' = NoResp
    /\ UNCHANGED <<valuesets, rules, metadata, stats, pending, started, tagged,
                   compiled, unit, held>>

\* The service: compile requests and tagging requests, interleaved.
Next ==
    \/ \E input \in ServiceInputs : Compile(input)
    \/ \E st \in BagToSet(pending), response \in ResponsePool : Expanded(st, response)
    \/ \E bundle \in TagInputs, mode \in Modes, now \in TagClock :
          Analyze(bundle, mode, now)
    \/ ClearAllData
    \/ Respond

Spec == Init /\ [][Next]_vars

\* The rule compiler on its own, over all the compile requests.
NextCompile ==
    \/ \E input \in CompileInputs : Compile(input)
    \/ \E st \in BagToSet(pending), response \in ResponsePool : Expanded(st, response)
    \/ ClearAllData
    \/ Respond

SpecCompile == Init /\ [][NextCompile]_vars

(***************************************************************************)
(* The label step and the marker step on their own: applySecurityLabels    *)
(* and addLastSourceSync applied, up to MaxSteps times in any order, to a  *)
(* resource with any incoming label list and extension list, with one      *)
(* matched set (an array of topics that differ as JSON strings).           *)
(***************************************************************************)
LabelPool == {Restricted, PSY, SUD, PSYalt}

\* the incoming meta.security: none, empty, one label, two labels
SecurityPool ==
    {<<>>} \cup {<<a>> : a \in LabelPool}
    \cup {pair \in LabelPool \X LabelPool : pair[1] # pair[2]}

OtherExtension == Extension("http://example.org/fhir/StructureDefinition/other", 1)

\* the incoming meta.extension: empty, markers, other extensions
ExtensionPool ==
    {<<>>, <<OtherExtension>>,
     <<Extension(LAST_SOURCE_SYNC_URL, 1)>>,
     <<Extension(LAST_SOURCE_SYNC_URL, 1), OtherExtension>>,
     <<Extension(LAST_SOURCE_SYNC_URL, MaxTime), OtherExtension,
       Extension(LAST_SOURCE_SYNC_URL, 1)>>}

MetaPool ==
    {Meta(TRUE, security, TRUE, extension) :
        security \in SecurityPool, extension \in ExtensionPool}
    \cup {Meta(FALSE, <<>>, TRUE, extension) : extension \in ExtensionPool}
    \cup {Meta(TRUE, security, FALSE, <<>>) : security \in SecurityPool}

LabelRecords ==
    {Resource("Condition", "c1", TRUE, meta, <<Leaf(SNOMED, "X")>>) : meta \in MetaPool}
    \cup {Resource("Condition", "c1", FALSE, NoMeta, <<Leaf(SNOMED, "X")>>),
          Resource("Condition", "c1", TRUE, NoMeta, <<Leaf(SNOMED, "X")>>)}

\* the arrays analyzeResource can return: topics that differ as JSON strings
TopicPool == {PSY, SUD, PSYalt}

MatchedPool ==
    {<<>>} \cup {<<a>> : a \in TopicPool}
    \cup {pair \in TopicPool \X TopicPool : pair[1] # pair[2]}

NewUnit(resource, matchedTopics) ==
    [input |-> resource, matched |-> matchedTopics, resource |-> resource,
     before |-> resource, steps |-> <<>>]

InitLabel ==
    /\ valuesets = {}
    /\ rules = {}
    /\ metadata = {}
    /\ stats = InitialStats
    /\ pending = EmptyBag
    /\ resp = NoResp
    /\ started = 0
    /\ tagged = 0
    /\ compiled = <<>>
    /\ held = NoHeld
    /\ unit \in {NewUnit(resource, matchedTopics) :
                    resource \in LabelRecords, matchedTopics \in MatchedPool}

Stepped(name, resource) ==
    [unit EXCEPT !.before = unit.resource, !.resource = resource,
                 !.steps = Append(@, name)]

\* applySecurityLabels(resource, matchedTopics)
ApplyLabels ==
    /\ Len(unit.steps) < MaxSteps
    /\ unit' = Stepped("label", applySecurityLabels(unit.resource, unit.matched))
    /\ UNCHANGED <<valuesets, rules, metadata, stats, pending, resp, started,
                   tagged, compiled, held>>

\* addLastSourceSync(resource) at the time now
Stamp(now) ==
    /\ Len(unit.steps) < MaxSteps
    /\ unit' = Stepped("stamp", addLastSourceSync(unit.resource, now))
    /\ UNCHANGED <<valuesets, rules, metadata, stats, pending, resp, started,
                   tagged, compiled, held>>

NextLabel ==
    \/ ApplyLabels
    \/ \E now \in Clock : Stamp(now)

SpecLabel == InitLabel /\ [][NextLabel]_vars

(***************************************************************************)
(* The code scanner on its own: analyzeResource applied once to a record   *)
(* under a rule table.  The records hold up to two objects at the top      *)
(* (bare codes, concept wrappers, a coding that holds a coding, codes      *)
(* below a container), with or without labels, one code below a chain of  *)
(* up to DepthLimit containers, or one code in a record that arrives with  *)
(* a marker; the tables are those that buildRules builds from one or two   *)
(* sources.                                                                *)
(***************************************************************************)
RECURSIVE Chain(_)
Chain(depth) ==
    IF depth = 0 THEN Leaf(SNOMED, "X") ELSE Container(<<Chain(depth - 1)>>)

RecDeep(depth) == Resource("Condition", "deep", FALSE, NoMeta, <<Chain(depth)>>)

ScanNodes ==
    {Leaf(SNOMED, "X"), Leaf(SNOMED, "Z"), Leaf(SNOMED, "Q"),
     Concept(<<Leaf(SNOMED, "X")>>),
     Concept(<<Leaf(SNOMED, "Y"), Leaf(SNOMED, "Z")>>),
     Concept(<<Node(SNOMED, "Y", TRUE, <<Leaf(SNOMED, "Z")>>, <<>>)>>),
     Container(<<Concept(<<Leaf(SNOMED, "Z")>>), Leaf(SNOMED, "Y")>>)}

ScanRecords ==
    {Resource("Condition", "s1", meta.hasSecurity, meta, content) :
        meta \in {NoMeta, Meta(TRUE, <<Restricted, PSY>>, FALSE, <<>>)},
        content \in {<<a>> : a \in ScanNodes}
                    \cup {<<pair[1], pair[2]>> :
                            pair \in {q \in ScanNodes \X ScanNodes : q[1] # q[2]}}}
    \cup {RecDeep(depth) : depth \in 0..DepthLimit}
    \cup {RecY(1), RecR,
          Resource("Condition", Null, FALSE, NoMeta, <<Leaf(SNOMED, Null)>>)}

\* the rule table that getAllRules returns after buildRules(valueSets) on
\* an empty database
CompiledRules(valueSets) ==
    getAllRules(buildRules(DB({}, {}, {}, InitialStats), valueSets).db.rules)

ScanTables ==
    {CompiledRules(valueSets) :
        valueSets \in {<<VsPsy>>, <<VsPsy, VsMulti>>, <<VsMulti, VsSud>>, <<VsSud>>}}

InitScan ==
    /\ valuesets = {}
    /\ rules = {}
    /\ metadata = {}
    /\ stats = InitialStats
    /\ pending = EmptyBag
    /\ resp = NoResp
    /\ started = 0
    /\ tagged = 0
    /\ compiled = <<>>
    /\ held = NoHeld
    /\ unit \in {[record |-> record, rules |-> table, steps |-> <<>>,
                  result |-> NewScan] :
                    record \in ScanRecords, table \in ScanTables}

\* analyzeResource(resource, rules)
Scan ==
    /\ unit.steps = <<>>
    /\ unit' = [unit EXCEPT !.steps = <<"scan">>,
                            !.result = Traverse(unit.record, unit.rules)]
    /\ UNCHANGED <<valuesets, rules, metadata, stats, pending, resp, started,
                   tagged, compiled, held>>

SpecScan == InitScan /\ [][Scan]_vars

(***************************************************************************)
(* The service with a client that submits what it was given again: the     *)
(* client posts a Bundle, keeps the answer, and later (compile requests    *)
(* may come in between) posts the emitted records back to the tagging      *)
(* endpoint.  The clock does not run backwards between the two requests.   *)
(***************************************************************************)
RetagSources == {VsPsy, VsSud, VsUndated}

RetagInputs ==
    {TagBundle("Bundle", "collection", TRUE, entries) :
        entries \in {<<BundleEntry(RecX)>>, <<BundleEntry(RecR)>>,
                     <<BundleEntry(RecY(1))>>,
                     <<BundleEntry(RecY(2)), BundleEntry(RecQ)>>}}

\* the Bundle that the service returned, posted back as it is: in batch
\* mode every entry holds the request member of createBatchEntry, in full
\* mode the members of the entry that was posted
EmittedBundle(response) ==
    TagBundle(response.output.resourceType, response.output.type, TRUE,
              response.output.entry)

Submit(bundle, mode, now) ==
    /\ tagged < MaxTags
    /\ tagged' = IF Rejection(Database, bundle) = "none" THEN tagged + 1 ELSE tagged
    /\ AnalyzeAs("tag", bundle, mode, now)
    /\ held' = IF resp'.threw THEN held
               ELSE [again |-> 0, has |-> TRUE, first |-> resp']

Resubmit(mode, now) ==
    /\ held.has
    /\ held.again < MaxRetags
    /\ now >= held.first.now
    /\ \E bundle \in {EmittedBundle(held.first)} :
          AnalyzeAs("retag", bundle, mode, now)
    /\ held' = [held EXCEPT !.again = @ + 1]
    /\ UNCHANGED tagged

NextRetag ==
    \/ \E input \in RetagSources : Compile(input)
    \/ \E bundle \in RetagInputs, mode \in Modes, now \in Times :
          Submit(bundle, mode, now)
    \/ \E mode \in Modes, now \in TagClock : Resubmit(mode, now)
    \/ Respond

SpecRetag == Init /\ [][NextRetag]_vars

(***************************************************************************)
(* The client-side engine (the same service kept in browser storage).  Its *)
(* store holds the list of ValueSets, the rules object (a map from         *)
(* code_key to one topic), the latest date and the statistics.  Its        *)
(* expansion, date, scanning, labelling, marking and Bundle functions are  *)
(* those of the backend, statement for statement; what is its own is       *)
(* modelled here.                                                          *)
(***************************************************************************)
NoCoding == Coding(Absent, Absent, Absent)

NoRules == [key \in {} |-> NoCoding]

\* hasValueSets and hasRules tell whether the storage holds the item at
\* all (getValueSets() and getRules() return null when it does not).
NewStore ==
    [hasValueSets |-> FALSE, valuesets |-> <<>>, hasRules |-> FALSE,
     rules |-> NoRules, latestDate |-> NoDate, stats |-> InitialStats]

\* extractTopicCoding: topic[0].coding[0], or else coding[0] of the first
\* focus context; null (NoCoding) when that has no code.
ClientExtractTopicCoding(resource) ==
    LET focus == {k \in 1..Len(resource.useContext) :
                      resource.useContext[k].code = "focus"}
        focusContext == resource.useContext[CHOOSE k \in focus :
                                                \A j \in focus : k <= j]
    IN  IF resource.topic # <<>> /\ ~Falsy(Head(resource.topic).code)
        THEN Head(resource.topic)
        ELSE IF focus # {} /\ focusContext.coding # <<>>
                /\ ~Falsy(Head(focusContext.coding).code)
        THEN Head(focusContext.coding)
        ELSE NoCoding

ClientValidateValueSet(resource) ==
    (IF Falsy(resource.id) THEN <<<<"ValueSet missing required field: id">>>>
     ELSE <<>>)
    \o (IF ClientExtractTopicCoding(resource) = NoCoding
        THEN <<<<"ValueSet missing topic", IdOrUnknown(resource)>>>> ELSE <<>>)
    \o (IF NeedsExpansion(resource)
        THEN <<<<"ValueSet missing expansion.contains", IdOrUnknown(resource)>>>>
        ELSE <<>>)

\* merged[index] = vs for the first entry of the same id, or merged.push(vs)
RECURSIVE ClientMerge(_, _)
ClientMerge(merged, valueSets) ==
    IF valueSets = <<>> THEN merged
    ELSE LET vs == Head(valueSets)
             same == {k \in 1..Len(merged) : merged[k].id = vs.id}
             index == CHOOSE k \in same : \A j \in same : k <= j
         IN  ClientMerge(IF same # {} THEN [merged EXCEPT ![index] = vs]
                         ELSE Append(merged, vs),
                         Tail(valueSets))

\* storeValueSets of the client: the list is written first; then the
\* latest date, whose toISOString() throws a RangeError on an invalid Date.
ClientStoreValueSets(store, valueSets, latestDate) ==
    LET stored == [store EXCEPT !.hasValueSets = TRUE,
                                !.valuesets = ClientMerge(store.valuesets, valueSets)]
        currentLatest == store.latestDate
    IN  IF latestDate # NoDate
           /\ (currentLatest = NoDate \/ DateGT(latestDate, currentLatest))
        THEN IF latestDate = InvalidDate
             THEN [store |-> stored, threw |-> TRUE]
             ELSE [store |-> [stored EXCEPT !.latestDate = latestDate],
                   threw |-> FALSE]
        ELSE [store |-> stored, threw |-> FALSE]

\* extractCodesFromExpansion of the client: rules[key] = topic
RECURSIVE ClientExtractCodes(_, _, _)
ClientExtractCodes(contains, table, topic) ==
    IF contains = <<>> THEN table
    ELSE LET item == Head(contains)
             key == CodeKey(item.system, item.code)
             own == IF ~Falsy(item.code) /\ ~Falsy(item.system)
                    THEN [k \in DOMAIN table \cup {key} |->
                             IF k = key THEN topic ELSE table[k]]
                    ELSE table
             nested == ClientExtractCodes(item.contains, own, topic)
         IN  ClientExtractCodes(Tail(contains), nested, topic)

RECURSIVE ClientBuildRules(_, _)
ClientBuildRules(table, valueSets) ==
    IF valueSets = <<>> THEN table
    ELSE LET vs == Head(valueSets)
             topicCoding == ClientExtractTopicCoding(vs)
             topic == [code |-> topicCoding.code, system |-> topicCoding.system,
                       display |-> IF Falsy(topicCoding.display)
                                   THEN topicCoding.code
                                   ELSE topicCoding.display]
         IN  ClientBuildRules(
                IF topicCoding = NoCoding THEN table
                ELSE IF vs.expansion.present /\ vs.expansion.hasContains
                THEN ClientExtractCodes(vs.expansion.contains, table, topic)
                ELSE table,
                Tail(valueSets))

\* the loop over the entries of a Bundle; responses holds, by entry, what
\* the terminology server answered to the call of expandValueSet
RECURSIVE ClientCollect(_, _, _)
ClientCollect(entries, responses, acc) ==
    IF entries = <<>> THEN acc
    ELSE LET resource == Head(entries).resource
             expanded == IF NeedsExpansion(resource)
                         THEN expandValueSet(resource, Head(responses))
                         ELSE ExpandReturned(resource)
             validation == ClientValidateValueSet(expanded.vs)
             vsDate == getValueSetDate(expanded.vs)
         IN  ClientCollect(Tail(entries), Tail(responses),
                IF resource.resourceType # "ValueSet"
                THEN [acc EXCEPT !.errors = Append(@,
                        <<"Skipping non-ValueSet resource",
                          IF Falsy(resource.resourceType) THEN "unknown"
                          ELSE resource.resourceType>>)]
                ELSE IF ~expanded.ok
                THEN [acc EXCEPT !.errors = Append(@,
                        <<"Failed to expand ValueSet", IdOrUnknown(resource)>>)]
                ELSE IF validation # <<>>
                THEN [acc EXCEPT !.errors = @ \o validation]
                ELSE [acc EXCEPT
                        !.latestDate =
                            IF vsDate # NoDate
                               /\ (acc.latestDate = NoDate
                                   \/ DateGT(vsDate, acc.latestDate))
                            THEN vsDate ELSE @,
                        !.valueSets = Append(@, expanded.vs)])

\* processValueSetBundle of the client.  Like that of the backend it is
\* suspended at every call of expandValueSet; it reads and writes the store
\* only after the last one (lines 140-149), so that the request is given
\* here by its input, the answers to its calls (by entry; the single
\* ValueSet is the one entry) and the store at the time of the last answer.
ClientProcessValueSetBundle(store, input, responses) ==
    LET return(severity, message, details) ==
            [store |-> store,
             outcome |-> createOperationOutcome(severity, message, details)]
        finish(valueSets, errors, latestDate) ==
            LET stored == ClientStoreValueSets(store, valueSets, latestDate)
                built == [stored.store EXCEPT
                            !.hasRules = TRUE,
                            !.rules = ClientBuildRules(@, valueSets),
                            !.stats.totalValueSetsProcessed = @ + Len(valueSets)]
            IN  IF stored.threw
                THEN [store |-> stored.store,
                      outcome |-> createOperationOutcome("error",
                                      <<"Processing failed">>, <<>>)]
                ELSE [store |-> built,
                      outcome |-> createOperationOutcome("success",
                                      <<"Successfully processed", Len(valueSets)>>,
                                      errors)]
        expanded == IF NeedsExpansion(input) THEN expandValueSet(input, responses[1])
                    ELSE ExpandReturned(input)
        collected == ClientCollect(input.entry, responses,
                        [valueSets |-> <<>>, errors |-> <<>>, latestDate |-> NoDate])
    IN  IF input.resourceType = "ValueSet"
        THEN IF ~expanded.ok
             THEN return("error", <<"Failed to expand ValueSet", IdOrUnknown(input)>>,
                         <<>>)
             ELSE IF ClientValidateValueSet(expanded.vs) # <<>>
             THEN return("error", <<"Invalid ValueSet">>,
                         ClientValidateValueSet(expanded.vs))
             ELSE finish(<<expanded.vs>>, <<>>, getValueSetDate(expanded.vs))
        ELSE IF input.resourceType = "Bundle"
        THEN IF ~input.hasEntry \/ input.entry = <<>>
             THEN return("warning", <<"Bundle contains no entries">>, <<>>)
             ELSE IF collected.valueSets = <<>>
             THEN return("error", <<"No valid ValueSets found">>, collected.errors)
             ELSE finish(collected.valueSets, collected.errors, collected.latestDate)
        ELSE return("error", <<"Invalid input">>, <<>>)

\* clearAllData of the client: the lists and the date are removed;
\* initializeStats finds the statistics in the storage and leaves them.
ClientClearAllData(store) == [NewStore EXCEPT !.stats = store.stats]

\* exportData of the client (without exportDate); latestDate is what
\* getLatestDate() returns.
ClientExportData(store) ==
    [hasValueSets |-> store.hasValueSets, valueSets |-> store.valuesets,
     hasRules |-> store.hasRules, rules |-> store.rules,
     latestDate |-> store.latestDate, hasStats |-> TRUE, stats |-> store.stats]

\* importData of the client: every item of data that is truthy replaces
\* the stored one (an empty list and an empty rules object are truthy);
\* data.latestDate stands for data.latestDate || data.earliestDate.
ClientImportData(store, data) ==
    [store EXCEPT
       !.hasValueSets = @ \/ data.hasValueSets,
       !.valuesets = IF data.hasValueSets THEN data.valueSets ELSE @,
       !.hasRules = @ \/ data.hasRules,
       !.rules = IF data.hasRules THEN data.rules ELSE @,
       !.latestDate = IF FalsyDate(data.latestDate) THEN @ ELSE data.latestDate,
       !.stats = IF data.hasStats THEN data.stats ELSE @]

\* shouldSkipResource of the client
ClientShouldSkipResource(resource, latestDate) ==
    IF latestDate = NoDate \/ ~resource.hasMeta \/ ~resource.meta.hasExtension
    THEN FALSE
    ELSE LET syncExt == FirstSync(resource.meta.extension)
         IN  IF syncExt.url = Absent \/ FalsyDate(syncExt.valueDateTime) THEN FALSE
             ELSE DateGE(syncExt.valueDateTime, latestDate)

\* the loop of analyzeResourceBundle of the client
RECURSIVE ClientBatchLoop(_, _, _, _, _)
ClientBatchLoop(entries, table, latestDate, now, acc) ==
    IF entries = <<>> THEN acc
    ELSE LET entry == Head(entries)
             resource == entry.resource
             emitted(scanned) ==
                [acc EXCEPT
                   !.taken = Append(@, "scanned"),
                   !.analyzed = @ + 1,
                   !.labeled = IF Len(scanned.matched) > 0 THEN @ + 1 ELSE @,
                   !.entries = Append(@, createBatchEntry(scanned.resource)),
                   !.after = Append(@, [entry EXCEPT !.resource = scanned.resource])]
         IN  ClientBatchLoop(Tail(entries), table, latestDate, now,
                IF ~entry.hasResource
                   \/ resource.resourceType \notin SUPPORTED_RESOURCES
                THEN [acc EXCEPT !.after = Append(@, entry),
                                 !.taken = Append(@, "unsupported")]
                ELSE IF ClientShouldSkipResource(resource, latestDate)
                THEN [acc EXCEPT !.skipped = @ + 1, !.after = Append(@, entry),
                                 !.taken = Append(@, "skipped")]
                ELSE emitted(ScanResource(resource, table, now)))

\* analyzeResourceBundle of the client
ClientAnalyzeResourceBundle(store, bundle, now) ==
    LET error == IF bundle.resourceType # "Bundle" THEN "Invalid Bundle"
                 ELSE IF ~bundle.hasEntry \/ bundle.entry = <<>>
                 THEN "Bundle contains no entries"
                 ELSE IF DOMAIN store.rules = {}
                 THEN "No sensitive topic rules loaded"
                 ELSE "none"
        return(acc) ==
            [store |-> [store EXCEPT
                          !.stats.totalResourcesAnalyzed = @ + acc.analyzed,
                          !.stats.totalResourcesLabeled = @ + acc.labeled,
                          !.stats.totalResourcesSkipped = @ + acc.skipped],
             threw |-> FALSE, error |-> "none",
             output |-> createBatchBundle(acc.entries, acc),
             inputAfter |-> acc.after, taken |-> acc.taken]
    IN  IF error # "none"
        THEN [store |-> store, threw |-> TRUE, error |-> error, output |-> NoOutput,
              inputAfter |-> bundle.entry, taken |-> <<>>]
        ELSE return(ClientBatchLoop(bundle.entry, store.rules, store.latestDate, now,
                                    NewCounts(<<>>)))

(***************************************************************************)
(* The two engines side by side: every compile request, every batch and    *)
(* every clearing is given to both, the backend on its database and the    *)
(* client on its store (unit.store), with the same answers of the          *)
(* terminology server, in the same order, and the same clock.  The two     *)
(* requests for one input are suspended at the same entries, so that one   *)
(* request record (in pending) stands for both; batches, clearings and     *)
(* other compile requests run while they wait.  unit.last holds what the   *)
(* two made of the last batch.                                             *)
(***************************************************************************)
EngineSources ==
    {VsPsy, VsPsyNew, VsSud, VsMulti, VsLazy, VsUndated,
     CompileBundle(<<Entry(VsSud), Entry(VsPsy)>>)}

EngineInputs ==
    {TagBundle("Bundle", Absent, TRUE, <<a>>) :
        a \in {BundleEntry(RecX), BundleEntry(RecZ), BundleEntry(RecR)}
              \cup {BundleEntry(RecY(t)) : t \in Times}}
    \cup {TagBundle("Bundle", Absent, TRUE,
                    <<BundleEntry(RecY(MaxTime)), BundleEntry(RecX),
                      BundleEntry(RecPatient)>>)}

NoBatch == [has |-> FALSE]

\* the store of a client that processed the sources, one after the other
RECURSIVE ClientAfter(_, _)
ClientAfter(store, sources) ==
    IF sources = <<>> THEN store
    ELSE ClientAfter(ClientProcessValueSetBundle(store, Head(sources),
                                                 <<NoResponse>>).store,
                     Tail(sources))

\* The files that are imported: the exports of two other clients, and a
\* file that holds a date only.
ImportPool ==
    {ClientExportData(ClientAfter(NewStore, <<VsSud>>)),
     ClientExportData(ClientAfter(NewStore, <<VsMulti, VsPsyNew>>)),
     [ClientExportData(NewStore) EXCEPT !.latestDate = MaxTime, !.hasStats = FALSE]}

InitEngines ==
    /\ valuesets = {}
    /\ rules = {}
    /\ metadata = {}
    /\ stats = InitialStats
    /\ pending = EmptyBag
    /\ resp = NoResp
    /\ started = 0
    /\ tagged = 0
    /\ compiled = <<>>
    /\ held = NoHeld
    /\ unit = [store |-> NewStore, imported |-> FALSE, steps |-> <<>>,
               last |-> NoBatch]

\* the input of a request that was suspended
InputOf(st) ==
    IF st.kind = "ValueSet" THEN st.entries[1].resource
    ELSE CompileBundle(st.entries)

\* The two requests for the same input are at the same place st.  At an
\* await both are suspended; at the end each engine runs its writes, the
\* backend lines 147-167 on the database and the client on its store.
ProceedBoth(st, input, others) ==
    IF st.pc = "await"
    THEN /\ pending' = others (+) SetToBag({st})
         /\ UNCHANGED <<valuesets, rules, metadata, stats, compiled, unit>>
    ELSE \E done \in {FinishRequest(st, Database)} :
            /\ pending' = others
            /\ SetDatabase(done.db)
            /\ compiled' = IF done.outcome.issue[1].severity = "success"
                           THEN Append(compiled, input) ELSE compiled
            /\ unit' = [unit EXCEPT
                          !.store = ClientProcessValueSetBundle(
                                        @, input, st.responses).store,
                          !.steps = Append(@, "compile")]

\* processValueSetBundle(input) is called on both engines
CompileBoth(input) ==
    /\ started < MaxCompiles
    /\ BagCardinality(pending) < MaxInflight
    /\ started' = started + 1
    /\ ProceedBoth(StartRequest(input), input, pending)
    /\ UNCHANGED <<resp, tagged, held>>

\* the terminology server gives the same answer to the two suspended
\* requests
ExpandedBoth(st, response) ==
    /\ BagIn(st, pending)
    /\ ProceedBoth(ResumeRequest(st, response), InputOf(st),
                   pending (-) SetToBag({st}))
    /\ UNCHANGED <<started, resp, tagged, held>>

\* clearAllData() on both engines
ClearBoth ==
    /\ SetDatabase(clearAllData(Database))
    /\ compiled' = <<>>
    /\ unit' = [unit EXCEPT !.store = ClientClearAllData(@), !.imported = FALSE]
    /\ UNCHANGED <<pending, resp, started, tagged, held>>

\* importData(data) on the client (the backend has no such operation);
\* unit.imported tells that the store no longer comes from the compile
\* requests alone.
ImportData(data) ==
    /\ unit' = [unit EXCEPT !.store = ClientImportData(@, data), !.imported = TRUE]
    /\ UNCHANGED <<valuesets, rules, metadata, stats, pending, resp, started,
                   tagged, compiled, held>>

AnalyzeBoth(bundle, now) ==
    /\ tagged < MaxTags
    /\ tagged' = tagged + 1
    /\ \E backend \in {analyzeResourceBundle(Database, bundle, now)},
          client \in {ClientAnalyzeResourceBundle(unit.store, bundle, now)} :
          /\ SetDatabase(backend.db)
          /\ unit' = [store |-> client.store, imported |-> unit.imported,
                      steps |-> Append(unit.steps, "analyze"),
                      last |-> [has |-> TRUE, bundle |-> bundle, now |-> now,
                                backend |-> [threw |-> backend.threw,
                                             taken |-> backend.taken,
                                             after |-> backend.inputAfter],
                                client |-> [threw |-> client.threw,
                                            taken |-> client.taken,
                                            after |-> client.inputAfter]]]
    /\ UNCHANGED <<pending, resp, started, compiled, held>>

NextEngines ==
    \/ \E input \in EngineSources : CompileBoth(input)
    \/ \E st \in BagToSet(pending), response \in ResponsePool :
          ExpandedBoth(st, response)
    \/ ClearBoth
    \/ \E data \in ImportPool : ImportData(data)
    \/ \E bundle \in EngineInputs, now \in TagClock : AnalyzeBoth(bundle, now)

SpecEngines == InitEngines /\ [][NextEngines]_vars

(***************************************************************************)
(* Definitions used to state the properties.                               *)
(***************************************************************************)
Range(seq) == {seq[k] : k \in 1..Len(seq)}

Epoch == getMetadata(metadata, "earliestDate")

Succeeded == resp.op = "compile" /\ resp.outcome.issue[1].severity = "success"

Tagged == resp.op = "tag" /\ ~resp.threw

\* the CodeIdentities (as keys) of a tree of expansion items
RECURSIVE KeysOfItems(_)
KeysOfItems(contains) ==
    IF contains = <<>> THEN {}
    ELSE LET item == Head(contains)
         IN  (IF ~Falsy(item.system) /\ ~Falsy(item.code)
              THEN {CodeKey(item.system, item.code)} ELSE {})
             \cup KeysOfItems(item.contains) \cup KeysOfItems(Tail(contains))

CodeKeys(vs) ==
    IF vs.expansion.present /\ vs.expansion.hasContains
    THEN KeysOfItems(vs.expansion.contains) ELSE {}

\* the topic identities (labelSystem, labelCode) of a source
TopicIds(vs) == {<<t.system, t.code>> : t \in Range(extractTopicCodings(vs))}

\* the topic identities the rule table holds for a key
RuleTopicIds(key) ==
    {<<row.topic_system, row.topic_code>> : row \in {r \in rules : r.code_key = key}}

\* the CodeIdentities (as keys) that occur in a tree of Nodes
RECURSIVE KeysOfNodes(_)
KeysOfNodes(nodes) ==
    IF nodes = <<>> THEN {}
    ELSE LET node == Head(nodes)
         IN  (IF ~Falsy(node.system) /\ ~Falsy(node.code)
              THEN {CodeKey(node.system, node.code)} ELSE {})
             \cup KeysOfNodes(node.coding) \cup KeysOfNodes(node.children)
             \cup KeysOfNodes(Tail(nodes))

\* the record of entry k of the tagging request's input, and the same record
\* as the request leaves it (narrowed mode: the caller's object; full mode:
\* the entry of the output at the same position)
InputRecord(k) == resp.bundle.entry[k].resource

TaggedRecord(k) ==
    IF resp.mode = "batch" THEN resp.inputAfter[k].resource
    ELSE resp.output.entry[k].resource

MarkerOf(resource) ==
    IF resource.hasMeta /\ resource.meta.hasExtension
    THEN FirstSync(resource.meta.extension).valueDateTime
    ELSE NoDate

(***************************************************************************)
(* C1.  After a compile request has returned success, the rule table maps  *)
(* every CodeIdentity to the union of the topic identities of all the      *)
(* compiled sources that contain it (all the topics of a multi-topic       *)
(* source included).                                                       *)
(***************************************************************************)
C1_RuleTableIsUnionOfTopics ==
    Succeeded =>
        \A key \in UNION {CodeKeys(vs) : vs \in Range(compiled)}
                      \cup {row.code_key : row \in rules} :
            RuleTopicIds(key)
                = UNION {TopicIds(vs) : vs \in {c \in Range(compiled) :
                                                    key \in CodeKeys(c)}}

(***************************************************************************)
(* C2.  A scanned record ends with the label of every topic of every       *)
(* compiled source that contains one of the record's codes.                *)
(***************************************************************************)
C2_RecordGetsTopicsOfAllSources ==
    Tagged =>
        \A k \in 1..Len(resp.taken) :
            resp.taken[k] = "scanned" =>
                \A vs \in Range(compiled) :
                    CodeKeys(vs) \cap KeysOfNodes(InputRecord(k).content) # {} =>
                        \A t \in TopicIds(vs) :
                            HasLabel(TaggedRecord(k).meta.security, t[1], t[2])

(***************************************************************************)
(* C3 as claimed (inclusive boundary).  In an accepted tagging request, a  *)
(* supported record whose marker equals the EffectiveEpoch is skipped, and *)
(* one whose marker is one unit earlier is not skipped.                    *)
(***************************************************************************)
C3_InclusiveBoundary ==
    Tagged =>
        \A k \in 1..Len(resp.taken) :
            LET marker == MarkerOf(InputRecord(k))
                epoch == getMetadata(resp.pre.metadata, "earliestDate")
            IN  (resp.taken[k] # "unsupported" /\ marker > 0 /\ epoch > 0) =>
                    /\ (marker = epoch => resp.taken[k] = "skipped")
                    /\ (marker = epoch - 1 => resp.taken[k] = "scanned")

(***************************************************************************)
(* C3 as amended (exclusive boundary).  In an accepted tagging request of  *)
(* the backend service, a supported record whose marker equals the         *)
(* EffectiveEpoch is not skipped (it is scanned), one whose marker is one  *)
(* unit later is skipped, and one whose marker is one unit earlier is not  *)
(* skipped.                                                                *)
(***************************************************************************)
C3_ExclusiveBoundary ==
    Tagged =>
        \A k \in 1..Len(resp.taken) :
            LET marker == MarkerOf(InputRecord(k))
                epoch == getMetadata(resp.pre.metadata, "earliestDate")
            IN  (resp.taken[k] # "unsupported" /\ marker > 0 /\ epoch > 0) =>
                    /\ (marker = epoch => resp.taken[k] = "scanned")
                    /\ (marker = epoch + 1 => resp.taken[k] = "skipped")
                    /\ (marker = epoch - 1 => resp.taken[k] = "scanned")

\* one request holds a record marked at the epoch, which was scanned, and a
\* record marked one unit later, which was skipped
C3_Witness ==
    /\ Tagged
    /\ \E k \in 1..Len(resp.taken), j \in 1..Len(resp.taken) :
          LET epoch == getMetadata(resp.pre.metadata, "earliestDate")
          IN  /\ epoch > 0
              /\ MarkerOf(InputRecord(k)) = epoch
              /\ resp.taken[k] = "scanned"
              /\ MarkerOf(InputRecord(j)) = epoch + 1
              /\ resp.taken[j] = "skipped"

(***************************************************************************)
(* C4.  After a compile request has returned success, the stored           *)
(* EffectiveEpoch is the minimum of the effective dates of all the sources *)
(* compiled so far (so it never increases from one request to the next).   *)
(***************************************************************************)
CompiledDates == {d \in {getValueSetDate(vs) : vs \in Range(compiled)} : d > 0}

C4_EpochIsMinimumOfCompiled ==
    Succeeded =>
        IF CompiledDates = {} THEN Epoch = NoDate
        ELSE Epoch \in CompiledDates /\ \A d \in CompiledDates : Epoch <= d

(***************************************************************************)
(* C5.  After a source has been compiled again under the same identifier,  *)
(* a CodeIdentity of its old version that belongs to the current version   *)
(* of no compiled source is no longer in the rule table, and no code-topic *)
(* association is held twice.                                              *)
(***************************************************************************)
CurrentSources ==
    {compiled[n] : n \in {m \in 1..Len(compiled) :
                            \A later \in (m + 1)..Len(compiled) :
                                compiled[later].id # compiled[m].id}}

C5_RecompileReplacesContribution ==
    Succeeded =>
        /\ \A i \in 1..Len(compiled), j \in 1..Len(compiled) :
              (i < j /\ compiled[i].id = compiled[j].id) =>
                  \A key \in CodeKeys(compiled[i]) :
                      key \notin UNION {CodeKeys(vs) : vs \in CurrentSources} =>
                          key \notin {row.code_key : row \in rules}
        /\ \A r1 \in rules, r2 \in rules :
              (r1.code_key = r2.code_key /\ r1.topic_system = r2.topic_system
                  /\ r1.topic_code = r2.topic_code) => r1 = r2

(***************************************************************************)
(* C6.  The rule table and the EffectiveEpoch change only by the whole     *)
(* write of one compile request: no step leaves a table that holds only    *)
(* part of a request's entries, or the request's epoch without its         *)
(* entries, for a tagging request to read.  (A tagging request is one      *)
(* step: it reads the table and the epoch once.)                           *)
(***************************************************************************)
C6_TablePublishedAtomically ==
    [][(rules' # rules \/ metadata' # metadata) =>
          (resp'.op = "compile" /\ ~resp'.threw
           /\ rules' = buildRules(Database, resp'.request.valueSets).db.rules)]_vars

(***************************************************************************)
(* C7.  A tagging request that is rejected (the input is no Bundle, it has *)
(* no entries, or no rule is loaded) returns no output, leaves every       *)
(* record of the input as it was, and leaves the statistics (and the rest  *)
(* of the database) unchanged, in narrowed and in full mode.               *)
(***************************************************************************)
C7_RejectedBeforeAnyRecord ==
    (resp.op = "tag"
       /\ (resp.bundle.resourceType # "Bundle" \/ resp.bundle.entry = <<>>
           \/ resp.pre.rules = {})) =>
        /\ resp.threw
        /\ resp.output = NoOutput
        /\ resp.inputAfter = resp.bundle.entry
        /\ stats = resp.pre.stats
        /\ Database = resp.pre

\* a Bundle of supported records was rejected because no rule is loaded
C7_Witness ==
    /\ resp.op = "tag"
    /\ resp.threw
    /\ resp.error = "No sensitive topic rules loaded"
    /\ \E k \in 1..Len(resp.bundle.entry) :
          /\ resp.bundle.entry[k].hasResource
          /\ resp.bundle.entry[k].resource.resourceType \in SUPPORTED_RESOURCES

\* the resource of entry k as it reaches validation (after its expansion)
EntryOutcome(st, k) ==
    LET resource == st.entries[k].resource
    IN  IF resource.resourceType # "ValueSet" THEN ExpandFailed
        ELSE IF NeedsExpansion(resource)
        THEN expandValueSet(resource, st.responses[k])
        ELSE ExpandReturned(resource)

EntryRejected(st, k) ==
    \/ ~EntryOutcome(st, k).ok
    \/ validateValueSet(EntryOutcome(st, k).vs) # <<>>

EntryDiagnostics(st, k) ==
    LET resource == st.entries[k].resource
    IN  IF resource.resourceType # "ValueSet"
        THEN {<<"Skipping non-ValueSet resource",
                IF Falsy(resource.resourceType) THEN "unknown"
                ELSE resource.resourceType>>}
        ELSE IF ~EntryOutcome(st, k).ok
        THEN {<<"Failed to expand ValueSet", IdOrUnknown(resource)>>}
        ELSE Range(validateValueSet(EntryOutcome(st, k).vs))

RECURSIVE KeptIndices(_, _)
KeptIndices(st, k) ==
    IF k > Len(st.entries) THEN <<>>
    ELSE (IF EntryRejected(st, k) THEN <<>> ELSE <<k>>) \o KeptIndices(st, k + 1)

\* the same request without its rejected entries, run to its end
WithoutRejected(st) ==
    LET kept == KeptIndices(st, 1)
    IN  BundleLoop([NewRequest("Bundle", [n \in 1..Len(kept) |-> st.entries[kept[n]]])
                      EXCEPT !.responses = [n \in 1..Len(kept) |-> st.responses[kept[n]]]])

(***************************************************************************)
(* C8.  In the answer to a Bundle compile request, every entry that was    *)
(* rejected (no ValueSet, expansion failed, validation failed) has its     *)
(* diagnostic among the recorded errors, and the request leaves the        *)
(* database, the collected sources, the folded date and the main issue of  *)
(* the outcome exactly as the same request without the rejected entries    *)
(* leaves them: a rejected source gives no rule and no date, the others    *)
(* are compiled as if it had not been in the request.                      *)
(***************************************************************************)
C8_RejectedSourceIsIsolated ==
    (resp.op = "compile" /\ resp.request.kind = "Bundle"
        /\ resp.request.pc = "finish") =>
        LET st == resp.request
            alone == WithoutRejected(st)
            finished == FinishRequest(alone, resp.pre)
        IN  /\ \A k \in 1..Len(st.entries) :
                  EntryRejected(st, k) =>
                      /\ EntryDiagnostics(st, k) # {}
                      /\ EntryDiagnostics(st, k) \subseteq Range(st.errors)
            /\ st.valueSets = alone.valueSets
            /\ st.earliestDate = alone.earliestDate
            /\ Database = finished.db
            /\ resp.threw = finished.threw
            /\ resp.outcome.issue[1] = finished.outcome.issue[1]

\* a Bundle request was answered with success for one source while another
\* source of the request, which carries a date earlier than the stored
\* epoch, was rejected
C8_Witness ==
    /\ Succeeded
    /\ resp.request.kind = "Bundle"
    /\ rules # resp.pre.rules
    /\ \E k \in 1..Len(resp.request.entries) :
          /\ EntryRejected(resp.request, k)
          /\ resp.request.entries[k].resource.resourceType = "ValueSet"
          /\ getValueSetDate(resp.request.entries[k].resource) > 0
          /\ DateLT(getValueSetDate(resp.request.entries[k].resource), Epoch)

(***************************************************************************)
(* C9.  Every source that a successful compile request counts as compiled  *)
(* has at least one resolved topic identity and at least one member        *)
(* CodeIdentity.                                                           *)
(***************************************************************************)
C9_AcceptedSourceHasTopicAndMember ==
    Succeeded =>
        \A vs \in Range(resp.request.valueSets) :
            /\ extractTopicCodings(vs) # <<>>
            /\ CodeKeys(vs) # {}

(***************************************************************************)
(* C10.  A compile request is answered with a failure outcome exactly when *)
(* none of its sources validated (or the input has no valid shape), and    *)
(* the failure carries the diagnostics collected for the rejected sources; *)
(* otherwise it is answered with success and the count of the sources      *)
(* that validated.                                                         *)
(***************************************************************************)
C10_FailureIffNoneValidated ==
    resp.op = "compile" =>
        LET st == resp.request
            main == resp.outcome.issue[1]
        IN  /\ main.severity # "success" <=> st.valueSets = <<>>
            /\ main.severity = "success" =>
                  main.diagnostics = <<"Successfully processed", Len(st.valueSets)>>
            /\ (st.pc = "finish" /\ main.severity # "success") =>
                  resp.outcome = createOperationOutcome("error",
                                     <<"No valid ValueSets found">>, st.errors)

\* the label list and the extension list of a resource ([] when absent)
SecurityOf(resource) ==
    IF resource.hasMeta /\ resource.meta.hasSecurity THEN resource.meta.security
    ELSE <<>>

ExtensionOf(resource) ==
    IF resource.hasMeta /\ resource.meta.hasExtension THEN resource.meta.extension
    ELSE <<>>

LabelIds(security) == {<<security[k].system, security[k].code>> : k \in 1..Len(security)}

NoTwoSameId(security) ==
    \A i \in 1..Len(security), j \in 1..Len(security) :
        (security[i].system = security[j].system
            /\ security[i].code = security[j].code) => i = j

Markers(extension) == SelectSeq(extension, LAMBDA ext : ext.url = LAST_SOURCE_SYNC_URL)

NonMarkers(extension) == SelectSeq(extension, LAMBDA ext : ext.url # LAST_SOURCE_SYNC_URL)

LastStep == unit.steps[Len(unit.steps)]

(***************************************************************************)
(* C11.  The label step is idempotent: when applySecurityLabels has been   *)
(* applied twice in a row to a resource with the same matched set, the     *)
(* second application left the resource, and so its label list, as the     *)
(* first application made it (same size, same entries).                    *)
(***************************************************************************)
C11_LabelStepIdempotent ==
    (Len(unit.steps) >= 2 /\ LastStep = "label"
        /\ unit.steps[Len(unit.steps) - 1] = "label") =>
        /\ unit.resource = unit.before
        /\ Len(SecurityOf(unit.resource)) = Len(SecurityOf(unit.before))

\* the label step was applied twice with two matched topics to a resource
\* that had none of their labels, and the labels were added
C11_Witness ==
    /\ unit.steps = <<"label", "label">>
    /\ Len(unit.matched) = 2
    /\ LabelIds(unit.matched) \cap LabelIds(SecurityOf(unit.input)) = {}
    /\ LabelIds(unit.matched) \subseteq LabelIds(SecurityOf(unit.resource))

(***************************************************************************)
(* C12.  After the marker step the resource holds exactly one reprocessing *)
(* marker, the fresh one, whether it held none, one or several before, and *)
(* its other extensions are kept, in their order.                          *)
(***************************************************************************)
C12_ExactlyOneMarker ==
    (Len(unit.steps) >= 1 /\ LastStep = "stamp") =>
        /\ unit.resource.hasMeta /\ unit.resource.meta.hasExtension
        /\ Len(Markers(ExtensionOf(unit.resource))) = 1
        /\ NonMarkers(ExtensionOf(unit.resource)) = NonMarkers(ExtensionOf(unit.before))
        /\ SecurityOf(unit.resource) = SecurityOf(unit.before)

\* the marker step ran on a resource that held two markers and another
\* extension
C12_Witness ==
    /\ Len(unit.steps) >= 1 /\ LastStep = "stamp"
    /\ Len(Markers(ExtensionOf(unit.before))) = 2
    /\ Len(NonMarkers(ExtensionOf(unit.before))) = 1

(***************************************************************************)
(* C13.  When the incoming label list of a resource has no two entries     *)
(* with the same (system, code), its label list has none after any number  *)
(* of label steps, for every matched set, one that holds two topics equal  *)
(* in system and code but different in display included.                   *)
(***************************************************************************)
C13_NoTwoLabelsWithSameId ==
    (Len(unit.steps) >= 1 /\ NoTwoSameId(SecurityOf(unit.input))) =>
        NoTwoSameId(SecurityOf(unit.resource))

\* the label step ran with a matched set that holds the topic PSY twice,
\* under two displays, on a resource without that label
C13_Witness ==
    /\ Len(unit.steps) >= 1 /\ LastStep = "label"
    /\ NoTwoSameId(SecurityOf(unit.input))
    /\ Len(unit.matched) = 2
    /\ Cardinality(LabelIds(unit.matched)) = 1
    /\ LabelIds(unit.matched) \cap LabelIds(SecurityOf(unit.input)) = {}
    /\ LabelIds(unit.matched) \subseteq LabelIds(SecurityOf(unit.resource))

\* the number of entries of a sequence that satisfy a test
CountOf(seq, Test(_)) == Cardinality({k \in 1..Len(seq) : Test(seq[k])})

IsRestricted(label) == label.system = ConfidentialitySystem /\ label.code = "R"

\* the rule table and the epoch that the tagging request read
RulesRead == getAllRules(resp.pre.rules)

EpochRead == getMetadata(resp.pre.metadata, "earliestDate")

\* the entries of the input that were scanned
Scanned == {k \in 1..Len(resp.taken) : resp.taken[k] = "scanned"}

\* the topic identities that the rule table gives for the codes of a record
MatchedIds(resource) ==
    {<<RulesRead[key].system, RulesRead[key].code>> :
        key \in KeysOfNodes(resource.content) \cap DOMAIN RulesRead}

(***************************************************************************)
(* C14 as stated.  After tagging, a scanned record with a matched topic    *)
(* carries the restricted label (confidentiality system, "R") exactly      *)
(* once, whatever labels it came with, and a scanned record with no        *)
(* matched topic has the restricted labels it came with and no other.      *)
(***************************************************************************)
C14_RestrictedExactlyOnceWhateverArrives ==
    Tagged =>
        \A k \in Scanned :
            LET before == SecurityOf(InputRecord(k))
                after == SecurityOf(TaggedRecord(k))
            IN  /\ MatchedIds(InputRecord(k)) # {} =>
                      CountOf(after, IsRestricted) = 1
                /\ MatchedIds(InputRecord(k)) = {} =>
                      CountOf(after, IsRestricted) = CountOf(before, IsRestricted)

(***************************************************************************)
(* C14.  After tagging, a scanned record with a matched topic carries the  *)
(* restricted label (confidentiality system, "R"): once if it came with    *)
(* none or with one, and as many times as it came with otherwise (the      *)
(* label is appended only if no label of the record has its identity, and  *)
(* labels that came twice are kept); a scanned record with no matched      *)
(* topic has the restricted labels it came with and no other.              *)
(***************************************************************************)
C14_RestrictedLabelAppendedOnlyIfMissing ==
    Tagged =>
        \A k \in Scanned :
            LET before == SecurityOf(InputRecord(k))
                after == SecurityOf(TaggedRecord(k))
            IN  /\ MatchedIds(InputRecord(k)) # {} =>
                      CountOf(after, IsRestricted)
                          = IF CountOf(before, IsRestricted) = 0 THEN 1
                            ELSE CountOf(before, IsRestricted)
                /\ MatchedIds(InputRecord(k)) = {} =>
                      CountOf(after, IsRestricted) = CountOf(before, IsRestricted)

\* one request scanned records that matched a topic and came with the
\* restricted label twice, once and not at all, and a record without
\* labels that matched none
C14_Witness ==
    /\ Tagged
    /\ \E k \in Scanned, j \in Scanned, m \in Scanned, n \in Scanned :
          /\ MatchedIds(InputRecord(k)) # {}
          /\ CountOf(SecurityOf(InputRecord(k)), IsRestricted) = 1
          /\ CountOf(SecurityOf(TaggedRecord(k)), IsRestricted) = 1
          /\ MatchedIds(InputRecord(m)) # {}
          /\ CountOf(SecurityOf(InputRecord(m)), IsRestricted) = 2
          /\ CountOf(SecurityOf(TaggedRecord(m)), IsRestricted) = 2
          /\ MatchedIds(InputRecord(n)) # {}
          /\ CountOf(SecurityOf(InputRecord(n)), IsRestricted) = 0
          /\ CountOf(SecurityOf(TaggedRecord(n)), IsRestricted) = 1
          /\ MatchedIds(InputRecord(j)) = {}
          /\ SecurityOf(TaggedRecord(j)) = <<>>

(***************************************************************************)
(* C15.  A code of the rule table is matched wherever it occurs in a       *)
(* scanned record, at any depth, bare or inside a concept wrapper: the     *)
(* record ends with the topic label of every code of its content that the  *)
(* table holds, and a record that came without labels and matched ends     *)
(* with exactly the restricted label followed by its topics (with X -> PSY *)
(* and X nested three levels deep: exactly the two labels R and PSY).      *)
(***************************************************************************)
C15_CodeMatchedAtAnyDepth ==
    Tagged =>
        \A k \in Scanned :
            LET after == SecurityOf(TaggedRecord(k))
                matched == MatchedIds(InputRecord(k))
            IN  /\ matched \subseteq LabelIds(after)
                /\ (SecurityOf(InputRecord(k)) = <<>> /\ matched # {}) =>
                      /\ after[1] = Restricted
                      /\ LabelIds(after)
                            = matched \cup {<<ConfidentialitySystem, "R">>}
                      /\ Len(after) = 1 + Cardinality(matched)

\* the table maps X to PSY, and the record with X three levels deep, in a
\* concept wrapper, ends with the two labels R and PSY
C15_Witness ==
    /\ Tagged
    /\ CodeKey(SNOMED, "X") \in DOMAIN RulesRead
    /\ RulesRead[CodeKey(SNOMED, "X")] = PSY
    /\ \E k \in Scanned :
          /\ InputRecord(k) = RecX
          /\ SecurityOf(TaggedRecord(k)) = <<Restricted, PSY>>

(***************************************************************************)
(* C16.  A scanned record none of whose codes is in the rule table keeps   *)
(* its label list as it came, holds one fresh marker (of the time of the   *)
(* request), is emitted in the output, and is counted as analyzed but not  *)
(* as labeled.                                                             *)
(***************************************************************************)
C16_UnmatchedRecordIsStampedOnly ==
    Tagged =>
        \A k \in Scanned :
            MatchedIds(InputRecord(k)) = {} =>
                /\ SecurityOf(TaggedRecord(k)) = SecurityOf(InputRecord(k))
                /\ TaggedRecord(k).hasMeta
                /\ TaggedRecord(k).meta.hasSecurity
                      = (InputRecord(k).hasMeta /\ InputRecord(k).meta.hasSecurity)
                /\ Markers(ExtensionOf(TaggedRecord(k)))
                      = <<Extension(LAST_SOURCE_SYNC_URL, resp.now)>>
                /\ \E n \in 1..Len(resp.output.entry) :
                      resp.output.entry[n].resource = TaggedRecord(k)
                /\ resp.output.analyzed = Cardinality(Scanned)
                /\ resp.output.labeled
                      = Cardinality({j \in Scanned : MatchedIds(InputRecord(j)) # {}})
                /\ resp.output.labeled < resp.output.analyzed

\* rules are loaded, and the request scanned a record with the code Q, of
\* no rule, next to a record that was labelled
C16_Witness ==
    /\ Tagged
    /\ \E k \in Scanned, j \in Scanned :
          /\ MatchedIds(InputRecord(k)) = {}
          /\ KeysOfNodes(InputRecord(k).content) # {}
          /\ MatchedIds(InputRecord(j)) # {}
          /\ resp.output.labeled >= 1

\* the indices of the scanned entries, in input order
RECURSIVE ScannedFrom(_)
ScannedFrom(k) ==
    IF k > Len(resp.taken) THEN <<>>
    ELSE (IF resp.taken[k] = "scanned" THEN <<k>> ELSE <<>>) \o ScannedFrom(k + 1)

\* what the input says of entry k: whether it holds a record of a supported
\* type, and whether SyncGate bypasses it
Supported(k) ==
    /\ resp.bundle.entry[k].hasResource
    /\ InputRecord(k).resourceType \in SUPPORTED_RESOURCES

Bypassed(k) ==
    /\ Supported(k)
    /\ EpochRead > 0
    /\ MarkerOf(InputRecord(k)) > EpochRead

(***************************************************************************)
(* C17.  In narrowed (batch) mode the output holds exactly the records     *)
(* that were scanned, in input order, each with an update directive (PUT)  *)
(* that names the type and the identifier of the record; the records that  *)
(* SyncGate bypassed and the records of unsupported type do not appear.    *)
(***************************************************************************)
C17_BatchOutputIsScannedRecords ==
    (Tagged /\ resp.mode = "batch") =>
        LET scanned == ScannedFrom(1)
            entries == resp.output.entry
        IN  /\ Len(entries) = Len(scanned)
            /\ Len(entries)
                  = Cardinality({k \in 1..Len(resp.bundle.entry) :
                                    Supported(k) /\ ~Bypassed(k)})
            /\ \A n \in 1..Len(entries) :
                  LET record == InputRecord(scanned[n])
                  IN  /\ Supported(scanned[n]) /\ ~Bypassed(scanned[n])
                      /\ entries[n].resource = resp.inputAfter[scanned[n]].resource
                      /\ entries[n].resource.resourceType = record.resourceType
                      /\ entries[n].resource.id = record.id
                      /\ entries[n].resource.content = record.content
                      /\ entries[n].request
                            = [method |-> "PUT",
                               url |-> record.resourceType \o "/" \o record.id]

\* a batch of five records, two bypassed and three scanned (one labelled),
\* gave exactly three entries and the counters 3, 1, 2
C17_Witness ==
    /\ Tagged /\ resp.mode = "batch"
    /\ Len(resp.bundle.entry) = 5
    /\ Cardinality({k \in 1..5 : Bypassed(k)}) = 2
    /\ Len(resp.output.entry) = 3
    /\ resp.output.analyzed = 3 /\ resp.output.labeled = 1 /\ resp.output.skipped = 2

(***************************************************************************)
(* C18.  For every tagging request that passed the checks, in either mode: *)
(* analyzed is the number of scanned records, labeled the number of        *)
(* scanned records with a matched topic, skipped the number of records     *)
(* that SyncGate bypassed, in the output and in the stored statistics; so  *)
(* analyzed + skipped is the number of records of supported type, labeled  *)
(* is at most analyzed, and the other entries change no counter.           *)
(***************************************************************************)
C18_CountersCountTheBranches ==
    (resp.op = "tag" /\ Rejection(resp.pre, resp.bundle) = "none") =>
        LET all == 1..Len(resp.bundle.entry)
            analyzed == Cardinality({k \in all : Supported(k) /\ ~Bypassed(k)})
            labeled == Cardinality({k \in all : Supported(k) /\ ~Bypassed(k)
                                        /\ MatchedIds(InputRecord(k)) # {}})
            skipped == Cardinality({k \in all : Bypassed(k)})
        IN  /\ stats.totalResourcesAnalyzed
                  = resp.pre.stats.totalResourcesAnalyzed + analyzed
            /\ stats.totalResourcesLabeled
                  = resp.pre.stats.totalResourcesLabeled + labeled
            /\ stats.totalResourcesSkipped
                  = resp.pre.stats.totalResourcesSkipped + skipped
            /\ stats.totalValueSetsProcessed = resp.pre.stats.totalValueSetsProcessed
            /\ analyzed + skipped = Cardinality({k \in all : Supported(k)})
            /\ labeled <= analyzed
            /\ ~resp.threw =>
                  /\ resp.output.analyzed = analyzed
                  /\ resp.output.labeled = labeled
                  /\ resp.output.skipped = skipped

\* a request in full mode counted one scanned and labelled record and one
\* bypassed record, in its output and in the stored statistics
C18_Witness ==
    /\ Tagged /\ resp.mode = "full"
    /\ Len(resp.bundle.entry) = 2
    /\ \E k \in 1..2 : Bypassed(k)
    /\ resp.output.analyzed = 1 /\ resp.output.labeled = 1 /\ resp.output.skipped = 1
    /\ stats.totalResourcesSkipped = 1

(***************************************************************************)
(* C19.  In full mode every tagging request that passed the checks returns *)
(* an output with as many entries as the input, in the same positions:     *)
(* the entries that SyncGate bypassed, that hold a record of unsupported   *)
(* type or that hold no record are the entries of the input, and the       *)
(* scanned entries hold the record of the input, annotated.                *)
(***************************************************************************)
C19_FullOutputKeepsEveryEntry ==
    (resp.op = "tag" /\ resp.mode = "full"
        /\ Rejection(resp.pre, resp.bundle) = "none") =>
        /\ ~resp.threw
        /\ Len(resp.output.entry) = Len(resp.bundle.entry)
        /\ \A k \in 1..Len(resp.bundle.entry) :
              IF Supported(k) /\ ~Bypassed(k)
              THEN /\ resp.output.entry[k].resource.resourceType
                         = InputRecord(k).resourceType
                   /\ resp.output.entry[k].resource.id = InputRecord(k).id
                   /\ resp.output.entry[k].resource.content = InputRecord(k).content
              ELSE resp.output.entry[k] = resp.bundle.entry[k]

Reverse(seq) == [k \in 1..Len(seq) |-> seq[Len(seq) + 1 - k]]

Rotate(seq) == IF seq = <<>> THEN seq ELSE Append(Tail(seq), Head(seq))

CollectedIds(entries) ==
    LabelIds(collectDistinctSecurityLabels(entries,
                                           [labels |-> <<>>, threw |-> FALSE]).labels)

(***************************************************************************)
(* C20.  The label set of the output collection holds exactly the label    *)
(* identities (system, code) of the label lists of the emitted records,    *)
(* each once (it is left out when there is none), and it holds the same    *)
(* identities when the records are taken in another order.                 *)
(***************************************************************************)
C20_CollectionLabelsAreUnion ==
    Tagged =>
        LET entries == resp.output.entry
            labels == resp.output.security
        IN  /\ LabelIds(labels)
                  = UNION {LabelIds(SecurityOf(entries[n].resource)) :
                              n \in 1..Len(entries)}
            /\ NoTwoSameId(labels)
            /\ resp.output.hasSecurity = (labels # <<>>)
            /\ CollectedIds(Reverse(entries)) = LabelIds(labels)
            /\ CollectedIds(Rotate(entries)) = LabelIds(labels)

\* the label list that the label step gives a record for the matched set
\* that the scan of the record as it came returns
LabelsAfterScan(resource) ==
    LET matchedTopics == analyzeResource(resource, RulesRead)
    IN  SecurityOf(IF Len(matchedTopics) > 0
                   THEN applySecurityLabels(resource, matchedTopics)
                   ELSE resource)

(***************************************************************************)
(* C21.  In a tagging request that passed the checks every record of a     *)
(* supported type took exactly one of the two paths, and SyncGate alone    *)
(* decided which: a bypassed (Skipped) record is left exactly as it came   *)
(* (not scanned, not labelled, no new marker; in full mode it is emitted   *)
(* as it came), and a scanned (Finalized) record carries the labels that   *)
(* the scan of the record as it came gives, and then one marker of the     *)
(* time of the request.                                                    *)
(***************************************************************************)
C21_RecordEndsSkippedOrFinalized ==
    (resp.op = "tag" /\ Rejection(resp.pre, resp.bundle) = "none") =>
        /\ Len(resp.taken) = Len(resp.bundle.entry)
        /\ \A k \in 1..Len(resp.bundle.entry) :
              Supported(k) =>
                /\ resp.taken[k] \in {"skipped", "scanned"}
                /\ (resp.taken[k] = "skipped") = Bypassed(k)
                /\ resp.taken[k] = "skipped" =>
                      /\ resp.inputAfter[k] = resp.bundle.entry[k]
                      /\ (Tagged /\ resp.mode = "full") =>
                            resp.output.entry[k] = resp.bundle.entry[k]
                /\ (resp.taken[k] = "scanned" /\ Tagged) =>
                      /\ SecurityOf(TaggedRecord(k)) = LabelsAfterScan(InputRecord(k))
                      /\ Markers(ExtensionOf(TaggedRecord(k)))
                            = <<Extension(LAST_SOURCE_SYNC_URL, resp.now)>>
                      /\ NonMarkers(ExtensionOf(TaggedRecord(k)))
                            = NonMarkers(ExtensionOf(InputRecord(k)))
        /\ Tagged =>
              resp.output.skipped + resp.output.analyzed
                 = Cardinality({k \in 1..Len(resp.bundle.entry) : Supported(k)})

\* one request held a record that SyncGate bypassed, with a marker older
\* than the clock, and a record that was scanned and labelled
C21_Witness ==
    /\ Tagged
    /\ \E k \in 1..Len(resp.taken), j \in 1..Len(resp.taken) :
          /\ resp.taken[k] = "skipped"
          /\ MarkerOf(InputRecord(k)) < resp.now
          /\ resp.taken[j] = "scanned"
          /\ Len(analyzeResource(InputRecord(j), RulesRead)) > 0

\* a resubmission that passed the checks; the epoch that the first request
\* read; whether entry k of the resubmitted Bundle holds a record that the
\* first request scanned and finalized (the narrowed mode emits no other)
Retagged == resp.op = "retag" /\ Rejection(resp.pre, resp.bundle) = "none"

FirstEpoch == getMetadata(held.first.pre.metadata, "earliestDate")

FirstScanned(k) ==
    held.first.mode = "batch" \/ held.first.taken[k] = "scanned"

(***************************************************************************)
(* C22 as stated.  A record that one tagging request scanned and finalized *)
(* is bypassed by SyncGate when the emitted record is submitted again and  *)
(* the epoch is the one that the first request read, whatever the dates of *)
(* the compiled sources.                                                   *)
(***************************************************************************)
C22_FinalizedRecordIsSkippedLater ==
    (Retagged /\ FirstEpoch = EpochRead) =>
        \A k \in 1..Len(resp.bundle.entry) :
            FirstScanned(k) => resp.taken[k] = "skipped"

(***************************************************************************)
(* C22, amended.  A record that one tagging request scanned and finalized  *)
(* at the time t is bypassed by SyncGate in a later tagging request        *)
(* exactly when the epoch that the later request reads is present and      *)
(* earlier than t; otherwise (no compiled source carries a date, or the    *)
(* epoch is t or later) it is scanned again.                               *)
(***************************************************************************)
C22_FinalizedRecordIsSkippedIffStampedAfterEpoch ==
    Retagged =>
        \A k \in 1..Len(resp.bundle.entry) :
            FirstScanned(k) =>
                (resp.taken[k] = "skipped")
                    = (EpochRead > 0 /\ held.first.now > EpochRead)

\* a record that came with an older marker was scanned, labelled and
\* stamped after the epoch, and was bypassed when it was submitted again
\* under the same epoch
C22_Witness ==
    /\ Retagged /\ FirstEpoch = EpochRead
    /\ \E k \in 1..Len(resp.bundle.entry) :
          /\ FirstScanned(k)
          /\ resp.taken[k] = "skipped"
          /\ MarkerOf(InputRecord(k)) = held.first.now
          /\ Len(SecurityOf(InputRecord(k))) > 0
          /\ \E j \in 1..Len(held.first.bundle.entry) :
                /\ held.first.bundle.entry[j].resource.id = InputRecord(k).id
                /\ MarkerOf(held.first.bundle.entry[j].resource) > 0
                /\ MarkerOf(held.first.bundle.entry[j].resource) < held.first.now

\* the scan of SpecScan has run
ScanDone == unit.steps = <<"scan">>

(***************************************************************************)
(* C23.  The matched set that the scanner returns for a record holds no    *)
(* two topics with the same (system, code), also when the codes of the     *)
(* record map to topics that agree in system and code and differ in the    *)
(* display name; for a record none of whose codes is in the table it is    *)
(* empty.                                                                  *)
(***************************************************************************)
C23_MatchedSetHasNoTwoSameId ==
    ScanDone =>
        /\ NoTwoSameId(unit.result.matched)
        /\ (KeysOfNodes(unit.record.content) \cap DOMAIN unit.rules = {}
              /\ ~unit.record.hasMeta) =>
                 unit.result.matched = <<>>

(***************************************************************************)
(* C24.  The scanner ends on every record, and it never descends below a   *)
(* fixed depth: no call of the traversal is nested deeper than DepthLimit  *)
(* (on a record that is nested deeper the traversal stops or rejects).     *)
(***************************************************************************)
C24_TraversalStaysWithinDepthLimit ==
    ScanDone =>
        /\ unit.result.level = 1
        /\ unit.result.deepest <= DepthLimit

\* the keys of the objects with system and code of a list of objects, one
\* for each such object (those of the coding lists and of the objects below
\* included)
RECURSIVE ShapedKeys(_)
ShapedKeys(nodes) ==
    IF nodes = <<>> THEN <<>>
    ELSE LET node == Head(nodes)
         IN  (IF ~Falsy(node.system) /\ ~Falsy(node.code)
              THEN <<CodeKey(node.system, node.code)>> ELSE <<>>)
             \o ShapedKeys(node.coding) \o ShapedKeys(node.children)
             \o ShapedKeys(Tail(nodes))

\* all of them in a record: the labels of meta.security and the content
ShapedKeysOf(record) ==
    (IF record.hasMeta /\ record.meta.hasSecurity
     THEN ShapedKeys(LabelNodes(record.meta.security)) ELSE <<>>)
    \o ShapedKeys(record.content)

Occurrences(seq, x) == Cardinality({k \in 1..Len(seq) : seq[k] = x})

(***************************************************************************)
(* C26.  During the scan of one record every object with system and code   *)
(* that can be reached (each member of the coding list of a concept        *)
(* wrapper included) is visited exactly once: the traversal is called on   *)
(* it one time.                                                            *)
(***************************************************************************)
C26_EveryCodeVisitedExactlyOnce ==
    ScanDone =>
        \A key \in Range(unit.result.calls) \cup Range(ShapedKeysOf(unit.record)) :
            Occurrences(unit.result.calls, key)
                = Occurrences(ShapedKeysOf(unit.record), key)

\* the compile requests under way: those suspended at an await and the one
\* that has just returned
Requests ==
    BagToSet(pending) \cup (IF resp.op = "compile" THEN {resp.request} ELSE {})

(***************************************************************************)
(* C25.  Within one compile request the terminology server is asked at     *)
(* most once for each source of the input, and only for a source (a        *)
(* ValueSet) that has no expansion.contains: a source that carries its     *)
(* member codes is never sent for expansion.                               *)
(***************************************************************************)
C25_ExpansionAtMostOncePerSource ==
    \A st \in Requests :
        /\ \A k \in 1..Len(st.entries) : Occurrences(st.calls, k) <= 1
        /\ \A n \in 1..Len(st.calls) :
              /\ st.calls[n] \in 1..Len(st.entries)
              /\ st.entries[st.calls[n]].resource.resourceType = "ValueSet"
              /\ NeedsExpansion(st.entries[st.calls[n]].resource)
        /\ (st.pc # "await") =>
              \A k \in 1..st.i - 1 :
                  (k <= Len(st.entries)
                     /\ st.entries[k].resource.resourceType = "ValueSet"
                     /\ NeedsExpansion(st.entries[k].resource)) =>
                        Occurrences(st.calls, k) = 1

\* a request for a Bundle of a source with member codes and a source
\* without has returned: the server was asked once, for the second entry
C25_Witness ==
    /\ resp.op = "compile"
    /\ Len(resp.request.entries) = 2
    /\ resp.request.entries[1].resource.resourceType = "ValueSet"
    /\ ~NeedsExpansion(resp.request.entries[1].resource)
    /\ resp.request.calls = <<2>>

\* the rule table that the first request of the client read
FirstRules == getAllRules(held.first.pre.rules)

\* the code key is mapped to a topic by the table that the resubmission
\* read, and the table that the first request read did not map it to that
\* topic: a source compiled in between brought the rule
NewlyMapped(key) ==
    /\ key \in DOMAIN RulesRead
    /\ \/ key \notin DOMAIN FirstRules
       \/ <<FirstRules[key].system, FirstRules[key].code>>
             # <<RulesRead[key].system, RulesRead[key].code>>

(***************************************************************************)
(* C27.  A record that the service finalized is invalidated by a later     *)
(* change of the rules: when a source compiled afterwards maps one of the  *)
(* codes of the record to a topic T and the record is submitted again, it  *)
(* is scanned again (not bypassed) and it carries the label T.             *)
(***************************************************************************)
C27_NewRuleReachesFinalizedRecord ==
    Retagged =>
        \A k \in 1..Len(resp.bundle.entry) :
            FirstScanned(k) =>
                \A key \in KeysOfNodes(InputRecord(k).content) :
                    NewlyMapped(key) =>
                        /\ resp.taken[k] = "scanned"
                        /\ HasLabel(SecurityOf(TaggedRecord(k)),
                                    RulesRead[key].system, RulesRead[key].code)

(***************************************************************************)
(* C28.  Whenever a compile request returns an error outcome (invalid      *)
(* input, no valid source, failed expansion of the single source, or an    *)
(* exception while storing), the stored sources, the rule table and the    *)
(* epoch are the same as before the request.                               *)
(***************************************************************************)
C28_ErrorOutcomeLeavesTablesUnchanged ==
    (resp.op = "compile" /\ resp.outcome.issue[1].severity = "error") =>
        /\ valuesets = resp.pre.valuesets
        /\ rules = resp.pre.rules
        /\ Epoch = getMetadata(resp.pre.metadata, "earliestDate")

\* The request that has returned held one source; the same source given
\* the other way (alone, or as the only entry of a Bundle), run from the
\* call to its end with the same answer of the terminology server, against
\* the database that the request found when it stored.
TwinInput ==
    IF resp.request.kind = "ValueSet"
    THEN CompileBundle(<<Entry(resp.request.entries[1].resource)>>)
    ELSE resp.request.entries[1].resource

TwinDone ==
    LET called == StartRequest(TwinInput)
        ended == IF called.pc = "await"
                 THEN ResumeRequest(called, resp.request.responses[1])
                 ELSE called
    IN  FinishRequest(ended, resp.pre)

(***************************************************************************)
(* C29.  Compiling one source directly and compiling a collection whose    *)
(* only entry is that source lead, from the same state, to the same rule   *)
(* table, the same stored sources and the same epoch, and both return      *)
(* success or both return an error.                                        *)
(***************************************************************************)
C29_SingleAndCollectionOfOneAgree ==
    (resp.op = "compile" /\ Len(resp.request.entries) = 1
        /\ resp.request.entries[1].resource.resourceType = "ValueSet") =>
        \A twin \in {TwinDone} :
            /\ twin.db.valuesets = valuesets
            /\ twin.db.rules = rules
            /\ getMetadata(twin.db.metadata, "earliestDate") = Epoch
            /\ twin.outcome.issue[1].severity = resp.outcome.issue[1].severity
            /\ resp.outcome.issue[1].severity \in {"success", "error"}

\* a collection of one dated source was compiled with success into a
\* database that held rules and a later epoch, and changed all three
C29_Witness ==
    /\ resp.op = "compile" /\ resp.request.kind = "Bundle"
    /\ Len(resp.request.entries) = 1
    /\ Succeeded
    /\ resp.pre.rules # {}
    /\ rules # resp.pre.rules
    /\ valuesets # resp.pre.valuesets
    /\ Epoch # getMetadata(resp.pre.metadata, "earliestDate")

\* the two engines took the same branch for every record of the last batch
SameDecisions == unit.last.backend.taken = unit.last.client.taken

\* the records of the last batch that both engines scanned
BothScanned ==
    {k \in 1..Len(unit.last.bundle.entry) :
        /\ k <= Len(unit.last.backend.taken) /\ k <= Len(unit.last.client.taken)
        /\ unit.last.backend.taken[k] = "scanned"
        /\ unit.last.client.taken[k] = "scanned"}

(***************************************************************************)
(* C30.  The client-side engine and the backend engine are equivalent:     *)
(* after the same sequence of compiled sources, both make the same skip    *)
(* decision for every record of the same batch and leave the same label    *)
(* list on every record they scan.                                         *)
(***************************************************************************)
C30_EnginesAgreeOnSkipAndLabels ==
    (unit.last.has /\ ~unit.imported) =>
        /\ SameDecisions
        /\ \A k \in BothScanned :
              SecurityOf(unit.last.backend.after[k].resource)
                  = SecurityOf(unit.last.client.after[k].resource)

====
